---- MODULE Spec2Model ----
(***************************************************************************)
(* Model of the GitLab SCM adapter (screwdriver-scm-gitlab, index.js).     *)
(*                                                                         *)
(* The webhook part: the platform delivers a webhook (a header map and a  *)
(* JSON payload) and calls parseHook and canHandleWebhook on it.           *)
(*                                                                         *)
(* JavaScript values are tagged records [t, v]: t is the JS type, v the   *)
(* value.  A property that is absent from an object reads as Undefined,   *)
(* exactly as in JS.  Strings whose characters the code looks at (the ref *)
(* of a push, which is split on '/') are sequences of one-character       *)
(* strings; strings the code builds from pieces (the checkout command)    *)
(* are sequences of those pieces; all other strings are atoms.            *)
(*                                                                         *)
(* The checkout part: the platform calls getCheckoutCommand on a plan.    *)
(***************************************************************************)
EXTENDS Integers, Sequences, FiniteSets, TLC

VARIABLES
    config,       \* this.config of the adapter (set once by the constructor)
    phase,        \* "idle", or "delivered" while the platform holds a delivery
    headers,      \* header map of the delivery in hand
    payload,      \* payload of the delivery in hand
    parsed,       \* outcome of parseHook on the delivery in hand
    handled,      \* outcome of canHandleWebhook on the delivery in hand
    gitlabConfig, \* this.gitlabConfig of the adapter (set once by the constructor)
    plan,         \* the argument of the getCheckoutCommand call in hand
    checkout,     \* outcome of getCheckoutCommand on the plan in hand
    calls,        \* the calls of concurrent callers: per caller, none or a settled call
    options,      \* the options object of the breaker command in hand
    sent,         \* the requests the command in hand has sent, one per attempt
    failures,     \* the errors the attempts of the command in hand ended with
    reply,        \* outcome of the breaker command in hand
    op,           \* the API operation in hand: its name, arguments and position
    requests,     \* the breaker commands the operation in hand has run
    outcome,      \* what the API operation in hand settled with
    env,          \* the environment the build runs the checkout command in
    ran           \* what running the checkout command in hand did

hookVars == <<phase, headers, payload, parsed, handled>>
checkoutVars == <<plan, checkout>>
instanceVars == <<config, gitlabConfig>>
breakerVars == <<options, sent, failures, reply>>
scriptVars == <<env, ran>>
apiVars == <<op, requests, outcome>>

vars ==
    <<config, phase, headers, payload, parsed, handled, gitlabConfig, plan, checkout,
      calls, options, sent, failures, reply, op, requests, outcome, env, ran>>

----------------------------------------------------------------------------
(* Bounds *)

MaxCommits == 2      \* longest commit list of a push payload
MaxCalls == 2        \* callers that use one adapter at the same time
MaxRetries == 2      \* config.fusebox.retry: attempts the breaker adds to the first
MaxHooks == 2        \* longest list of hooks a project answers with
MaxNotes == 2        \* longest list of notes a merge request answers with
MaxComments == 2     \* longest list of comments handed to addPrComment

----------------------------------------------------------------------------
(* JavaScript values *)

Undefined == [t |-> "undefined", v |-> 0]
Null == [t |-> "null", v |-> 0]
Str(s) == [t |-> "string", v |-> s]
Num(n) == [t |-> "number", v |-> n]
Bool(b) == [t |-> "boolean", v |-> b]
Arr(s) == [t |-> "array", v |-> s]
Obj(r) == [t |-> "object", v |-> r]
Template(parts) == [t |-> "string", v |-> parts]

\* a === b
StrictEquals(a, b) == a.t = b.t /\ a.v = b.v

\* !a
Falsy(a) ==
    \/ a.t \in {"undefined", "null"}
    \/ a.t = "boolean" /\ a.v = FALSE
    \/ a.t = "number" /\ a.v = 0
    \/ a.t = "string" /\ Len(a.v) = 0

\* a || b
OrElse(a, b) == IF Falsy(a) THEN b ELSE a

\* Array.isArray(a)
IsArray(a) == a.t = "array"

\* Hoek.reach(obj, path, { default }): walk the path; a string key reads a
\* property of an object, a number key reads an element of an array
\* (0-based, a negative one counted from the end); stop with the default at
\* the first value that is missing.  The keys of a path are JS values.
RECURSIVE reach(_, _, _)
reach(obj, path, default) ==
    IF path = <<>> THEN obj
    ELSE LET key == Head(path) IN
         IF obj.t = "object" /\ key.t = "string"
         THEN IF key.v \in DOMAIN obj.v /\ obj.v[key.v].t # "undefined"
              THEN reach(obj.v[key.v], Tail(path), default)
              ELSE default
         ELSE IF obj.t = "array" /\ key.t = "number"
         THEN LET number == IF key.v < 0 THEN Len(obj.v) + key.v ELSE key.v IN
              IF number + 1 \in DOMAIN obj.v /\ obj.v[number + 1].t # "undefined"
              THEN reach(obj.v[number + 1], Tail(path), default)
              ELSE default
         ELSE default

\* str.split(sep) on a sequence of characters
RECURSIVE split(_, _)
split(str, sep) ==
    IF str = <<>> THEN << <<>> >>
    ELSE LET rest == split(Tail(str), sep) IN
         IF Head(str) = sep THEN << <<>> >> \o rest
         ELSE << <<Head(str)>> \o Head(rest) >> \o Tail(rest)

\* arr.slice(-1)[0]
lastElement(arr) == IF arr = <<>> THEN Undefined ELSE Str(arr[Len(arr)])

----------------------------------------------------------------------------
(* Outcomes of an async function *)

Resolved(x) == [kind |-> "resolved", value |-> x, statusCode |-> Undefined]
Rejected(reason, code) == [kind |-> "rejected", value |-> Str(reason), statusCode |-> code]
NotCalled == [kind |-> "none", value |-> Undefined, statusCode |-> Undefined]

\* a throwError that ignores the code it is given and keeps the default, 500
throwError_defaultCode(errorReason, errorCode) == Rejected(errorReason, Num(500))

\* throwError(errorReason, errorCode): an Error carrying statusCode
throwError(errorReason, errorCode) == Rejected(errorReason, Num(errorCode))

\* what the runtime throws on reading a property of undefined or null
TypeError == Rejected("TypeError", Undefined)

\* a promise rejected with the error object err
RejectedWith(err) == [kind |-> "rejected", value |-> err, statusCode |-> Undefined]

----------------------------------------------------------------------------
(* The adapter *)

\* _getScmContexts()
_getScmContexts(cfg) ==
    IF cfg.gitlabHost # "" THEN <<Template(<<"gitlab:", cfg.gitlabHost>>)>>
    ELSE <<Str("gitlab:gitlab.com")>>

\* a header check that lower-cases the keys before it looks for the header
hasGitlabEventHeader_anyCase(payloadHeaders) ==
    \E k \in DOMAIN payloadHeaders : k \in {"x-gitlab-event", "X-Gitlab-Event"}

\* Object.keys(payloadHeaders).includes('x-gitlab-event')
hasGitlabEventHeader(payloadHeaders) == "x-gitlab-event" \in DOMAIN payloadHeaders

\* the states of a merge request that make an event
actionableStates == {"opened", "closed", "merged"}

\* a list of actions that also lets the commented fourth one, locked, through
isActionable_withLocked(action) ==
    action.t = "string" /\ action.v \in {"opened", "closed", "locked", "merged"}

\* ['opened', 'closed', 'merged'].includes(action)
isActionable(action) == action.t = "string" /\ action.v \in actionableStates

\* the two prSource results the wrong way round
prSourceOf_swapped(baseSource, headSource) ==
    IF StrictEquals(baseSource, headSource) THEN Str("fork") ELSE Str("branch")

\* baseSource === headSource ? 'branch' : 'fork'
prSourceOf(baseSource, headSource) ==
    IF StrictEquals(baseSource, headSource) THEN Str("branch") ELSE Str("fork")

\* an action that is never rewritten
prAction_unmapped(action) == action

\* if (action === 'merged') { action = 'closed'; }
prAction(action) == IF StrictEquals(action, Str("merged")) THEN Str("closed") ELSE action

\* case 'merge_request' of _parseHook
parseMergeRequest(scmContext, checkoutUrl, webhookPayload) ==
    LET mergeRequest == reach(webhookPayload, <<Str("object_attributes")>>, Undefined)
        action == reach(mergeRequest, <<Str("state")>>, Undefined)
        prNum == reach(mergeRequest, <<Str("iid")>>, Undefined)
        prTitle == reach(mergeRequest, <<Str("title")>>, Undefined)
        baseSource == reach(mergeRequest, <<Str("target_project_id")>>, Undefined)
        headSource == reach(mergeRequest, <<Str("source_project_id")>>, Undefined)
        prSource == prSourceOf(baseSource, headSource)
        prMerged == Bool(StrictEquals(action, Str("merged")))
        ref == Template(<<"pull/", prNum, "/merge">>)
    IN  IF ~isActionable(action) THEN Resolved(Null)
        ELSE Resolved(Obj([
                action |-> prAction(action),
                branch |-> reach(mergeRequest, <<Str("target_branch")>>, Undefined),
                checkoutUrl |-> checkoutUrl,
                prNum |-> prNum,
                prTitle |-> prTitle,
                prRef |-> Template(<<"merge_requests/", prNum>>),
                ref |-> ref,
                prSource |-> prSource,
                sha |-> reach(mergeRequest, <<Str("last_commit"), Str("id")>>, Undefined),
                type |-> Str("pr"),
                username |-> reach(webhookPayload, <<Str("user"), Str("username")>>, Undefined),
                hookId |-> Str(""),
                scmContext |-> scmContext,
                prMerged |-> prMerged]))

\* commits.forEach(commit => commitAuthors.push(commit.author.name)) throws
\* when a commit has no author to read the name of
authorsThrow(commits) ==
    IsArray(commits) /\ \E i \in DOMAIN commits.v :
        \/ commits.v[i].t \in {"undefined", "null"}
        \/ reach(commits.v[i], <<Str("author")>>, Undefined).t \in {"undefined", "null"}

\* a forEach that pushes an author only once
RECURSIVE uniqueAuthors(_)
uniqueAuthors(names) ==
    IF names = <<>> THEN <<>>
    ELSE LET init == SubSeq(names, 1, Len(names) - 1)
             last == names[Len(names)]
         IN  IF \E i \in DOMAIN init : init[i] = last
             THEN uniqueAuthors(init)
             ELSE uniqueAuthors(init) \o <<last>>

collectAuthors_unique(commits) ==
    IF IsArray(commits)
    THEN Arr(uniqueAuthors([i \in DOMAIN commits.v |-> commits.v[i].v.author.v.name]))
    ELSE Arr(<<>>)

\* the commitAuthors the forEach collects
collectAuthors(commits) ==
    IF IsArray(commits)
    THEN Arr([i \in DOMAIN commits.v |-> commits.v[i].v.author.v.name])
    ELSE Arr(<<>>)

\* the first segment in place of the last
branchOfRef_firstSegment(ref) == Str(Head(split(ref.v, "/")))

\* Hoek.reach(webhookPayload, 'ref').split('/').slice(-1)[0]
branchOfRef(ref) == lastElement(split(ref.v, "/"))

\* the files of the last commit in place of the first
changedFiles_lastCommit(webhookPayload, kind) ==
    reach(webhookPayload, <<Str("commits"), Num(-1), Str(kind)>>, Arr(<<>>))

\* Hoek.reach(webhookPayload, ['commits', 0, kind], { default: [] })
changedFiles(webhookPayload, kind) ==
    reach(webhookPayload, <<Str("commits"), Num(0), Str(kind)>>, Arr(<<>>))

\* case 'push' of _parseHook
parsePush(scmContext, checkoutUrl, commits, webhookPayload) ==
    LET ref == reach(webhookPayload, <<Str("ref")>>, Undefined) IN
    IF authorsThrow(commits) THEN TypeError
    ELSE IF ref.t # "string" THEN TypeError
    ELSE Resolved(Obj([
            action |-> Str("push"),
            branch |-> branchOfRef(ref),
            checkoutUrl |-> checkoutUrl,
            sha |-> reach(webhookPayload, <<Str("checkout_sha")>>, Undefined),
            type |-> Str("repo"),
            username |-> reach(webhookPayload, <<Str("user_username")>>, Undefined),
            commitAuthors |-> collectAuthors(commits),
            lastCommitMessage |->
                OrElse(reach(webhookPayload, <<Str("commits"), Num(-1), Str("message")>>, Str("")),
                       Str("")),
            hookId |-> Str(""),
            scmContext |-> scmContext,
            ref |-> reach(webhookPayload, <<Str("ref")>>, Undefined),
            addedFiles |-> changedFiles(webhookPayload, "added"),
            modifiedFiles |-> changedFiles(webhookPayload, "modified"),
            removedFiles |-> changedFiles(webhookPayload, "removed")]))

\* a _parseHook whose default case raises instead of returning null
_parseHook_defaultThrows(cfg, payloadHeaders, webhookPayload) ==
    LET scmContext == _getScmContexts(cfg)[1]
        checkoutUrl == reach(webhookPayload, <<Str("project"), Str("git_ssh_url")>>, Undefined)
        commits == reach(webhookPayload, <<Str("commits")>>, Undefined)
        type == reach(webhookPayload, <<Str("object_kind")>>, Undefined)
    IN  IF ~hasGitlabEventHeader(payloadHeaders)
        THEN throwError("Missing x-gitlab-event header", 400)
        ELSE IF StrictEquals(type, Str("merge_request"))
        THEN parseMergeRequest(scmContext, checkoutUrl, webhookPayload)
        ELSE IF StrictEquals(type, Str("push"))
        THEN parsePush(scmContext, checkoutUrl, commits, webhookPayload)
        ELSE throwError("event is not available", 500)

\* async _parseHook(payloadHeaders, webhookPayload)
_parseHook(cfg, payloadHeaders, webhookPayload) ==
    LET scmContext == _getScmContexts(cfg)[1]
        checkoutUrl == reach(webhookPayload, <<Str("project"), Str("git_ssh_url")>>, Undefined)
        commits == reach(webhookPayload, <<Str("commits")>>, Undefined)
        type == reach(webhookPayload, <<Str("object_kind")>>, Undefined)
    IN  IF ~hasGitlabEventHeader(payloadHeaders)
        THEN throwError("Missing x-gitlab-event header", 400)
        ELSE IF StrictEquals(type, Str("merge_request"))
        THEN parseMergeRequest(scmContext, checkoutUrl, webhookPayload)
        ELSE IF StrictEquals(type, Str("push"))
        THEN parsePush(scmContext, checkoutUrl, commits, webhookPayload)
        ELSE Resolved(Null)

\* a _canHandleWebhook without the try/catch
_canHandleWebhook_noCatch(cfg, hdrs, pld) ==
    LET result == _parseHook(cfg, hdrs, pld) IN
    IF result.kind = "rejected" THEN result
    ELSE Resolved(Bool(TRUE))

\* async _canHandleWebhook(headers, payload): try { await _parseHook } catch
_canHandleWebhook(cfg, hdrs, pld) ==
    LET result == _parseHook(cfg, hdrs, pld) IN
    IF result.kind = "rejected" THEN Resolved(Bool(FALSE))
    ELSE Resolved(Bool(TRUE))

----------------------------------------------------------------------------
(* getCheckoutCommand.  A shell line is a sequence of pieces; the          *)
(* indentation of a line and every ' && ' are pieces of their own.          *)

\* the indentations that open the lines handed to trimIndentJoin
Indents == {"    ", "        ", "            "}

\* `${x}` inside a template literal
text(x) ==
    IF x.t = "string" THEN x.v
    ELSE IF x.t = "number" THEN <<ToString(x.v)>>
    ELSE IF x.t = "undefined" THEN <<"undefined">>
    ELSE IF x.t = "null" THEN <<"null">>
    ELSE <<"[object Object]">>

\* s.trimStart()
RECURSIVE trimStart(_)
trimStart(s) ==
    IF s # <<>> /\ Head(s) \in Indents THEN trimStart(Tail(s)) ELSE s

\* arr.join(sep)
RECURSIVE join(_, _)
join(arr, sep) ==
    IF arr = <<>> THEN <<>>
    ELSE IF Len(arr) = 1 THEN Head(arr)
    ELSE Head(arr) \o <<sep>> \o join(Tail(arr), sep)

\* trimIndentJoin(commands)
trimIndentJoin(commands) ==
    join([i \in DOMAIN commands |-> trimStart(commands[i])], " ")

\* str.replace(pattern, replacement): the first occurrence only
RECURSIVE replace(_, _, _)
replace(str, pattern, replacement) ==
    IF str = <<>> THEN <<>>
    ELSE IF Head(str) = pattern THEN <<replacement>> \o Tail(str)
    ELSE <<Head(str)>> \o replace(Tail(str), pattern, replacement)

\* `${host}/${org}/${repo}`
httpsUrl(host, org, repo) == text(host) \o <<"/">> \o text(org) \o <<"/">> \o text(repo)

\* `git@${host}:${org}/${repo}`
sshUrl(host, org, repo) ==
    <<"git@">> \o text(host) \o <<":">> \o text(org) \o <<"/">> \o text(repo)

\* the wrapper, the recursive option and the sparse option
optionSteps ==
    << <<"export SD_GIT_WRAPPER=\"$(if [ `uname` = 'Darwin' ]; then echo 'eval'; else echo 'sd-step exec core/git'; fi)\"">>,
       trimIndentJoin(<<
           <<"if [ ! -z $GIT_RECURSIVE_CLONE ]", " && ", "[ $GIT_RECURSIVE_CLONE = false ]; then">>,
           <<"    ", "export GIT_RECURSIVE_OPTION=\"\";">>,
           <<"else">>,
           <<"    ", "export GIT_RECURSIVE_OPTION=\"--recursive\";">>,
           <<"fi">> >>),
       trimIndentJoin(<<
           <<"if [ ! -z \"$GIT_SPARSE_CHECKOUT_PATH\" ]; then">>,
           <<"    ", "export GIT_SPARSE_OPTION=\"--no-checkout\";else">>,
           <<"    ", "export GIT_SPARSE_OPTION=\"\";">>,
           <<"fi">> >>),
       <<"echo Exporting environment variables">> >>

\* a step that leaves the choice to the environment whatever readOnly says
scmUrlStep_ignoresReadOnly(cfg, checkoutUrl, sshCheckoutUrl) ==
    trimIndentJoin(<<
        <<"if [ ! -z $SCM_CLONE_TYPE ]", " && ", "[ $SCM_CLONE_TYPE = ssh ]; then">>,
        <<"    ", "export SCM_URL=">> \o sshCheckoutUrl \o <<";">>,
        <<"elif [ ! -z $SCM_USERNAME ]", " && ", "[ ! -z $SCM_ACCESS_TOKEN ];">>,
        <<"    ", "then export SCM_URL=https://$SCM_USERNAME:$SCM_ACCESS_TOKEN@">>
            \o checkoutUrl \o <<";">>,
        <<"else">>,
        <<"    ", "export SCM_URL=https://">> \o checkoutUrl \o <<";">>,
        <<"fi">> >>)

\* a step that, with readOnly over SSH, also asks every later clone for SSH
scmUrlStep_readOnlyExportsCloneType(cfg, checkoutUrl, sshCheckoutUrl) ==
    IF /\ ~Falsy(reach(Obj(cfg), <<Str("readOnly"), Str("enabled")>>, Undefined))
       /\ StrictEquals(reach(Obj(cfg), <<Str("readOnly"), Str("cloneType")>>, Undefined),
                       Str("ssh"))
    THEN <<"export SCM_CLONE_TYPE=", "ssh", ";", " ", "export SCM_URL=">> \o sshCheckoutUrl
    ELSE scmUrlStep_ignoresReadOnly(cfg, checkoutUrl, sshCheckoutUrl)

\* the step that exports SCM_URL
scmUrlStep(cfg, checkoutUrl, sshCheckoutUrl) ==
    IF ~Falsy(reach(Obj(cfg), <<Str("readOnly"), Str("enabled")>>, Undefined))
    THEN IF StrictEquals(reach(Obj(cfg), <<Str("readOnly"), Str("cloneType")>>, Undefined),
                         Str("ssh"))
         THEN <<"export SCM_URL=">> \o sshCheckoutUrl
         ELSE trimIndentJoin(<<
                  <<"if [ ! -z $SCM_USERNAME ]", " && ", "[ ! -z $SCM_ACCESS_TOKEN ]; then">>,
                  <<"    ", "export SCM_URL=https://$SCM_USERNAME:$SCM_ACCESS_TOKEN@">>
                      \o checkoutUrl \o <<";">>,
                  <<"else">>,
                  <<"    ", "export SCM_URL=https://">> \o checkoutUrl \o <<";">>,
                  <<"fi">> >>)
    ELSE trimIndentJoin(<<
             <<"if [ ! -z $SCM_CLONE_TYPE ]", " && ", "[ $SCM_CLONE_TYPE = ssh ]; then">>,
             <<"    ", "export SCM_URL=">> \o sshCheckoutUrl \o <<";">>,
             <<"elif [ ! -z $SCM_USERNAME ]", " && ", "[ ! -z $SCM_ACCESS_TOKEN ];">>,
             <<"    ", "then export SCM_URL=https://$SCM_USERNAME:$SCM_ACCESS_TOKEN@">>
                 \o checkoutUrl \o <<";">>,
             <<"else">>,
             <<"    ", "export SCM_URL=https://">> \o checkoutUrl \o <<";">>,
             <<"fi">> >>)

\* GIT_URL, the git identity and the final checkout directory
identitySteps(cfg) ==
    << <<"export GIT_URL=$SCM_URL.git">>,
       <<"export GIT_MERGE_AUTOEDIT=no">>,
       <<"echo Setting user name and user email">>,
       <<"$SD_GIT_WRAPPER \"git config --global user.name ", cfg.username, "\"">>,
       <<"$SD_GIT_WRAPPER \"git config --global user.email ", cfg.email, "\"">>,
       <<"export SD_CHECKOUT_DIR_FINAL=$SD_SOURCE_DIR">>,
       trimIndentJoin(<<
           <<"if [ ! -z $SD_CHECKOUT_DIR ]; then">>,
           <<"    ", "export SD_CHECKOUT_DIR_FINAL=$SD_CHECKOUT_DIR;">>,
           <<"fi">> >>) >>

\* a clone that never asks for a depth
cloneStep_alwaysFull(quotedBranch, url, dir) ==
    <<"$SD_GIT_WRAPPER \"git clone $GIT_SPARSE_OPTION $GIT_RECURSIVE_OPTION --quiet --progress --branch ">>
        \o quotedBranch \o <<" ", url, " ", dir, "\"">>

\* the clone of a branch of the repository at url into dir: a full clone
\* when GIT_SHALLOW_CLONE is false, a shallow one otherwise
cloneStep(quotedBranch, url, dir) ==
    trimIndentJoin(<<
        <<"if [ ! -z $GIT_SHALLOW_CLONE ]", " && ", "[ $GIT_SHALLOW_CLONE = false ]; then">>,
        <<"    ", "$SD_GIT_WRAPPER \"git clone $GIT_SPARSE_OPTION $GIT_RECURSIVE_OPTION --quiet --progress --branch ">>
            \o quotedBranch \o <<" ", url, " ", dir, "\";">>,
        <<"else">>,
        <<"    ", "if [ ! -z \"$GIT_SHALLOW_CLONE_SINCE\" ]; then">>,
        <<"        ", "export GIT_SHALLOW_CLONE_DEPTH_OPTION=\"--shallow-since='$GIT_SHALLOW_CLONE_SINCE'\";">>,
        <<"    ", "else">>,
        <<"        ", "if [ -z $GIT_SHALLOW_CLONE_DEPTH ]; then">>,
        <<"            ", "export GIT_SHALLOW_CLONE_DEPTH=50;">>,
        <<"        ", "fi;">>,
        <<"        ", "export GIT_SHALLOW_CLONE_DEPTH_OPTION=\"--depth=$GIT_SHALLOW_CLONE_DEPTH\";">>,
        <<"    ", "fi;">>,
        <<"    ", "export GIT_SHALLOW_CLONE_BRANCH=\"--no-single-branch\";">>,
        <<"    ", "if [ \"$GIT_SHALLOW_CLONE_SINGLE_BRANCH\" = true ]; then">>,
        <<"        ", "export GIT_SHALLOW_CLONE_BRANCH=\"\";">>,
        <<"    ", "fi;">>,
        <<"    ", "$SD_GIT_WRAPPER \"git clone $GIT_SHALLOW_CLONE_DEPTH_OPTION $GIT_SHALLOW_CLONE_BRANCH $GIT_SPARSE_OPTION $GIT_RECURSIVE_OPTION --quiet --progress --branch ">>
            \o quotedBranch \o <<" ", url, " ", dir, "\";">>,
        <<"fi">> >>)

\* the sparse checkout that follows a clone
sparseCheckoutStep ==
    trimIndentJoin(<<
        <<"if [ ! -z \"$GIT_SPARSE_CHECKOUT_PATH\" ];then">>,
        <<"    ", "$SD_GIT_WRAPPER \"git sparse-checkout set $GIT_SPARSE_CHECKOUT_PATH\"", " && ",
          "$SD_GIT_WRAPPER \"git checkout\";">>,
        <<"fi">> >>)

\* the checkout of the parent (external config) repository
parentSteps(parentConfig) ==
    IF Falsy(parentConfig) THEN <<>>
    ELSE LET parentCheckoutUrl ==
                 httpsUrl(parentConfig.v.host, parentConfig.v.org, parentConfig.v.repo)
             parentSshCheckoutUrl ==
                 sshUrl(parentConfig.v.host, parentConfig.v.org, parentConfig.v.repo)
             parentBranch == parentConfig.v.branch
             externalConfigDir == "$SD_ROOT_DIR/config"
         IN << trimIndentJoin(<<
                   <<"if [ ! -z $SCM_CLONE_TYPE ]", " && ", "[ $SCM_CLONE_TYPE = ssh ]; then">>,
                   <<"    ", "export CONFIG_URL=">> \o parentSshCheckoutUrl \o <<";">>,
                   <<"elif [ ! -z $SCM_USERNAME ]", " && ", "[ ! -z $SCM_ACCESS_TOKEN ]; then">>,
                   <<"    ", "export CONFIG_URL=https://$SCM_USERNAME:$SCM_ACCESS_TOKEN@">>
                       \o parentCheckoutUrl \o <<";">>,
                   <<"else">>,
                   <<"    ", "export CONFIG_URL=https://">> \o parentCheckoutUrl \o <<";">>,
                   <<"fi">> >>),
               <<"export SD_CONFIG_DIR=", externalConfigDir>>,
               <<"echo Cloning external config repo ">> \o parentCheckoutUrl,
               cloneStep(text(parentBranch), "$CONFIG_URL", "$SD_CONFIG_DIR"),
               sparseCheckoutStep,
               <<"$SD_GIT_WRAPPER \"git -C $SD_CONFIG_DIR reset --hard ">>
                   \o text(parentConfig.v.sha) \o <<" --\"">>,
               <<"echo Reset external config repo to ">> \o text(parentConfig.v.sha) >>

\* the clone of the repository and the reset to the ref to build
primarySteps(checkoutUrl, branch, checkoutRef) ==
    << <<"echo 'Cloning ">> \o checkoutUrl \o <<", on branch ">> \o text(branch) \o <<"'">>,
       cloneStep(<<"'">> \o text(branch) \o <<"'">>, "$SCM_URL", "$SD_CHECKOUT_DIR_FINAL"),
       sparseCheckoutStep,
       <<"$SD_GIT_WRAPPER \"git reset --hard '">> \o text(checkoutRef) \o <<"' --\"">>,
       <<"echo 'Reset to ">> \o text(checkoutRef) \o <<"'">> >>

\* a choice of remote that takes every pull request for one from a fork
baseRepoOf_alwaysUpstream(prSource) == "upstream"

\* the remote a pull request's branch lives on
baseRepoOf(prSource) == IF StrictEquals(prSource, Str(<<"fork">>)) THEN "upstream" ELSE "origin"

\* the fetch and merge of a pull request, or the export of the plain branch
pullRequestSteps(configPrRef, prSource, prBranchName, branch) ==
    IF ~Falsy(configPrRef)
    THEN LET LOCAL_BRANCH_NAME == "pr"
             prRef == replace(configPrRef.v, "merge", "head:pr")
             baseRepo == baseRepoOf(prSource)
         IN << <<"echo 'Fetching PR ">> \o prRef \o <<"'">>,
               <<"$SD_GIT_WRAPPER \"git fetch origin ">> \o prRef \o <<"\"">>,
               <<"export PR_BASE_BRANCH_NAME='">> \o text(branch) \o <<"'">>,
               <<"export PR_BRANCH_NAME='", baseRepo, "/">> \o text(prBranchName) \o <<"'">>,
               <<"echo 'Checking out the PR branch ">> \o text(prBranchName) \o <<"'">>,
               <<"$SD_GIT_WRAPPER \"git checkout ", LOCAL_BRANCH_NAME, "\"">>,
               <<"$SD_GIT_WRAPPER \"git merge ">> \o text(branch) \o <<"\"">>,
               <<"export GIT_BRANCH=origin/refs/">> \o prRef >>
    ELSE << <<"export GIT_BRANCH='origin/">> \o text(branch) \o <<"'">> >>

\* the init or update of the submodules
submoduleStep ==
    trimIndentJoin(<<
        <<"if [ ! -z $GIT_RECURSIVE_CLONE ]", " && ", "[ $GIT_RECURSIVE_CLONE = false ]; then">>,
        <<"    ", "$SD_GIT_WRAPPER \"git submodule init\";">>,
        <<"else">>,
        <<"    ", "$SD_GIT_WRAPPER \"git submodule update --init --recursive\";">>,
        <<"fi">> >>)

\* the cd into rootDir
rootDirSteps(rootDir) == IF ~Falsy(rootDir) THEN << <<"cd ">> \o text(rootDir) >> ELSE <<>>

\* a checkout that clones the repository before its parent
cloneSteps_parentLast(parentConfig, checkoutUrl, branch, checkoutRef) ==
    primarySteps(checkoutUrl, branch, checkoutRef) \o parentSteps(parentConfig)

\* the parent repository, when there is one, then the repository itself
cloneSteps(parentConfig, checkoutUrl, branch, checkoutRef) ==
    parentSteps(parentConfig) \o primarySteps(checkoutUrl, branch, checkoutRef)

\* a checkout that changes directory before it handles the submodules
closingSteps_cdFirst(rootDir) == rootDirSteps(rootDir) \o <<submoduleStep>>

\* the submodules, then the cd into rootDir
closingSteps(rootDir) == <<submoduleStep>> \o rootDirSteps(rootDir)

\* a branch that prefers the pipeline's branch to the commit's
branchOf_pipelineFirst(commitBranch, pipelineBranch) == OrElse(pipelineBranch, commitBranch)

\* const branch = commitBranch || pipelineBranch
branchOf(commitBranch, pipelineBranch) == OrElse(commitBranch, pipelineBranch)

\* a reset that goes to the sha for every build
checkoutRefOf_alwaysSha(configPrRef, branch, sha) == sha

\* const checkoutRef = configPrRef ? branch : sha
checkoutRefOf(configPrRef, branch, sha) == IF ~Falsy(configPrRef) THEN branch ELSE sha

\* the steps _getCheckoutCommand pushes on its command array, in order
checkoutSteps(cfg, checkoutConfig) ==
    LET pipelineBranch == checkoutConfig.v.branch
        commitBranch == checkoutConfig.v.commitBranch
        configPrRef == checkoutConfig.v.prRef
        checkoutUrl == httpsUrl(checkoutConfig.v.host, checkoutConfig.v.org, checkoutConfig.v.repo)
        sshCheckoutUrl == sshUrl(checkoutConfig.v.host, checkoutConfig.v.org, checkoutConfig.v.repo)
        branch == branchOf(commitBranch, pipelineBranch)
        checkoutRef == checkoutRefOf(configPrRef, branch, checkoutConfig.v.sha)
    IN optionSteps
       \o <<scmUrlStep(cfg, checkoutUrl, sshCheckoutUrl)>>
       \o identitySteps(cfg)
       \o cloneSteps(checkoutConfig.v.parentConfig, checkoutUrl, branch, checkoutRef)
       \o pullRequestSteps(configPrRef, checkoutConfig.v.prSource,
                           checkoutConfig.v.prBranchName, branch)
       \o closingSteps(checkoutConfig.v.rootDir)

\* a command object whose steps are joined by '; '
commandOf_semicolons(steps) ==
    Obj([name |-> Str("sd-checkout-code"), command |-> Str(join(steps, "; "))])

\* { name: 'sd-checkout-code', command: command.join(' && ') }
commandOf(steps) ==
    Obj([name |-> Str("sd-checkout-code"), command |-> Str(join(steps, " && "))])

\* _getCheckoutCommand(config)
_getCheckoutCommand(cfg, checkoutConfig) ==
    Resolved(commandOf(checkoutSteps(cfg, checkoutConfig)))

----------------------------------------------------------------------------
(* The build's shell running the checkout command.  The command is read     *)
(* piece by piece: the tests, exports and clones _getCheckoutCommand writes  *)
(* are what the shell acts on, every other piece is a word it passes over.   *)
(* A variable's value is a sequence of pieces, the empty one when it is      *)
(* unset or empty.                                                           *)

EnvNames ==
    {"SCM_CLONE_TYPE", "SCM_USERNAME", "SCM_ACCESS_TOKEN", "GIT_SHALLOW_CLONE",
     "GIT_SHALLOW_CLONE_SINCE", "GIT_SHALLOW_CLONE_DEPTH", "GIT_SHALLOW_CLONE_SINGLE_BRANCH",
     "GIT_RECURSIVE_CLONE", "GIT_SPARSE_CHECKOUT_PATH", "SD_CHECKOUT_DIR",
     "SCM_URL", "CONFIG_URL", "GIT_SHALLOW_CLONE_DEPTH_OPTION", "GIT_SHALLOW_CLONE_BRANCH"}

noEnv == [n \in EnvNames |-> <<>>]

\* [ ! -z $X ], [ -z $X ] and [ $X = word ]
nonEmpty(var) == [var |-> var, op |-> "! -z", word |-> ""]
empty(var) == [var |-> var, op |-> "-z", word |-> ""]
equals(var, word) == [var |-> var, op |-> "=", word |-> word]

holds(test, e) ==
    IF test.op = "! -z" THEN e[test.var] # <<>>
    ELSE IF test.op = "-z" THEN e[test.var] = <<>>
    ELSE e[test.var] = <<test.word>>

\* the tests that open an if
shIf ==
    "if [ ! -z $GIT_RECURSIVE_CLONE ]" :> nonEmpty("GIT_RECURSIVE_CLONE")
    @@ "if [ ! -z \"$GIT_SPARSE_CHECKOUT_PATH\" ]; then" :> nonEmpty("GIT_SPARSE_CHECKOUT_PATH")
    @@ "if [ ! -z \"$GIT_SPARSE_CHECKOUT_PATH\" ];then" :> nonEmpty("GIT_SPARSE_CHECKOUT_PATH")
    @@ "if [ ! -z $SCM_USERNAME ]" :> nonEmpty("SCM_USERNAME")
    @@ "if [ ! -z $SCM_CLONE_TYPE ]" :> nonEmpty("SCM_CLONE_TYPE")
    @@ "if [ ! -z $SD_CHECKOUT_DIR ]; then" :> nonEmpty("SD_CHECKOUT_DIR")
    @@ "if [ ! -z $GIT_SHALLOW_CLONE ]" :> nonEmpty("GIT_SHALLOW_CLONE")
    @@ "if [ ! -z \"$GIT_SHALLOW_CLONE_SINCE\" ]; then" :> nonEmpty("GIT_SHALLOW_CLONE_SINCE")
    @@ "if [ -z $GIT_SHALLOW_CLONE_DEPTH ]; then" :> empty("GIT_SHALLOW_CLONE_DEPTH")
    @@ "if [ \"$GIT_SHALLOW_CLONE_SINGLE_BRANCH\" = true ]; then" :>
           equals("GIT_SHALLOW_CLONE_SINGLE_BRANCH", "true")

\* the tests that open an elif
shElif == "elif [ ! -z $SCM_USERNAME ]" :> nonEmpty("SCM_USERNAME")

\* the tests that follow an && inside a condition
shAnd ==
    "[ $GIT_RECURSIVE_CLONE = false ]; then" :> equals("GIT_RECURSIVE_CLONE", "false")
    @@ "[ $SCM_CLONE_TYPE = ssh ]; then" :> equals("SCM_CLONE_TYPE", "ssh")
    @@ "[ ! -z $SCM_ACCESS_TOKEN ]; then" :> nonEmpty("SCM_ACCESS_TOKEN")
    @@ "[ ! -z $SCM_ACCESS_TOKEN ];" :> nonEmpty("SCM_ACCESS_TOKEN")
    @@ "[ $GIT_SHALLOW_CLONE = false ]; then" :> equals("GIT_SHALLOW_CLONE", "false")

shElse == {"else", "export GIT_SPARSE_OPTION=\"--no-checkout\";else"}
shFi == {"fi", "fi;"}

\* the pieces after position i of the command, up to the first of the stops
RECURSIVE wordsAfter(_, _, _)
wordsAfter(cmd, i, stops) ==
    IF i + 1 > Len(cmd) \/ cmd[i + 1] \in stops THEN <<>>
    ELSE <<cmd[i + 1]>> \o wordsAfter(cmd, i + 1, stops)

\* the exports the shell acts on: the variable and the value with its
\* variables filled in; rest is what the command appends to the piece
shExports ==
    {"export SCM_URL=", "export SCM_URL=https://",
     "export SCM_URL=https://$SCM_USERNAME:$SCM_ACCESS_TOKEN@",
     "then export SCM_URL=https://$SCM_USERNAME:$SCM_ACCESS_TOKEN@",
     "export CONFIG_URL=", "export CONFIG_URL=https://",
     "export CONFIG_URL=https://$SCM_USERNAME:$SCM_ACCESS_TOKEN@",
     "export SCM_CLONE_TYPE=",
     "export GIT_SHALLOW_CLONE_DEPTH_OPTION=\"--shallow-since='$GIT_SHALLOW_CLONE_SINCE'\";",
     "export GIT_SHALLOW_CLONE_DEPTH=50;",
     "export GIT_SHALLOW_CLONE_DEPTH_OPTION=\"--depth=$GIT_SHALLOW_CLONE_DEPTH\";",
     "export GIT_SHALLOW_CLONE_BRANCH=\"--no-single-branch\";",
     "export GIT_SHALLOW_CLONE_BRANCH=\"\";"}

withCredentials(e, rest) ==
    <<"https://">> \o e["SCM_USERNAME"] \o <<":">> \o e["SCM_ACCESS_TOKEN"] \o <<"@">> \o rest

shExport(piece, e, rest) ==
    CASE piece = "export SCM_URL=" -> [var |-> "SCM_URL", value |-> rest]
      [] piece = "export SCM_URL=https://" -> [var |-> "SCM_URL", value |-> <<"https://">> \o rest]
      [] piece \in {"export SCM_URL=https://$SCM_USERNAME:$SCM_ACCESS_TOKEN@",
                    "then export SCM_URL=https://$SCM_USERNAME:$SCM_ACCESS_TOKEN@"} ->
            [var |-> "SCM_URL", value |-> withCredentials(e, rest)]
      [] piece = "export CONFIG_URL=" -> [var |-> "CONFIG_URL", value |-> rest]
      [] piece = "export CONFIG_URL=https://" ->
            [var |-> "CONFIG_URL", value |-> <<"https://">> \o rest]
      [] piece = "export CONFIG_URL=https://$SCM_USERNAME:$SCM_ACCESS_TOKEN@" ->
            [var |-> "CONFIG_URL", value |-> withCredentials(e, rest)]
      [] piece = "export SCM_CLONE_TYPE=" -> [var |-> "SCM_CLONE_TYPE", value |-> rest]
      [] piece = "export GIT_SHALLOW_CLONE_DEPTH_OPTION=\"--shallow-since='$GIT_SHALLOW_CLONE_SINCE'\";" ->
            [var |-> "GIT_SHALLOW_CLONE_DEPTH_OPTION",
             value |-> <<"--shallow-since='">> \o e["GIT_SHALLOW_CLONE_SINCE"] \o <<"'">>]
      [] piece = "export GIT_SHALLOW_CLONE_DEPTH=50;" ->
            [var |-> "GIT_SHALLOW_CLONE_DEPTH", value |-> <<"50">>]
      [] piece = "export GIT_SHALLOW_CLONE_DEPTH_OPTION=\"--depth=$GIT_SHALLOW_CLONE_DEPTH\";" ->
            [var |-> "GIT_SHALLOW_CLONE_DEPTH_OPTION",
             value |-> <<"--depth=">> \o e["GIT_SHALLOW_CLONE_DEPTH"]]
      [] piece = "export GIT_SHALLOW_CLONE_BRANCH=\"--no-single-branch\";" ->
            [var |-> "GIT_SHALLOW_CLONE_BRANCH", value |-> <<"--no-single-branch">>]
      [] OTHER -> [var |-> "GIT_SHALLOW_CLONE_BRANCH", value |-> <<>>]

\* the two git clone lines: the one with no depth option and the shallow one
fullClone ==
    "$SD_GIT_WRAPPER \"git clone $GIT_SPARSE_OPTION $GIT_RECURSIVE_OPTION --quiet --progress --branch "
shallowClone ==
    "$SD_GIT_WRAPPER \"git clone $GIT_SHALLOW_CLONE_DEPTH_OPTION $GIT_SHALLOW_CLONE_BRANCH $GIT_SPARSE_OPTION $GIT_RECURSIVE_OPTION --quiet --progress --branch "

\* the clone the shell runs at a clone line: the remote variable it names,
\* the URL that variable holds, and the depth option the line expands to
shClone(piece, e, rest) ==
    LET remote == IF \E k \in DOMAIN rest : rest[k] = "$CONFIG_URL"
                  THEN "CONFIG_URL" ELSE "SCM_URL"
    IN [remote |-> remote,
        url |-> e[remote],
        shallow |-> piece = shallowClone,
        depthOption |-> IF piece = shallowClone THEN e["GIT_SHALLOW_CLONE_DEPTH_OPTION"]
                        ELSE <<>>]

\* the shell at piece i of the command: frames are the open ifs (whether
\* the if is reached, whether a branch of it was taken, whether the branch
\* in hand runs).  A condition is the test of the piece and, when an && and
\* a second test follow it, that one too.
sh(cmd, i, st) ==
    LET piece == cmd[i]
        running == \A k \in DOMAIN st.frames : st.frames[k].on
        depth == Len(st.frames)
        two == i + 2 <= Len(cmd) /\ cmd[i + 1] = " && " /\ cmd[i + 2] \in DOMAIN shAnd
        cond(tests) == holds(tests[piece], st.env) /\ (two => holds(shAnd[cmd[i + 2]], st.env))
    IN
    IF piece \in DOMAIN shIf
    THEN [st EXCEPT !.frames = Append(@, [reached |-> running, taken |-> cond(shIf),
                                          on |-> running /\ cond(shIf)])]
    ELSE IF piece \in DOMAIN shElif /\ depth > 0
    THEN [st EXCEPT !.frames[depth] =
             [reached |-> @.reached, taken |-> @.taken \/ cond(shElif),
              on |-> @.reached /\ ~@.taken /\ cond(shElif)]]
    ELSE IF piece \in shElse /\ depth > 0
    THEN [st EXCEPT !.frames[depth] =
             [reached |-> @.reached, taken |-> TRUE, on |-> @.reached /\ ~@.taken]]
    ELSE IF piece \in shFi /\ depth > 0
    THEN [st EXCEPT !.frames = SubSeq(@, 1, depth - 1)]
    ELSE IF piece \in shExports /\ running
    THEN LET x == shExport(piece, st.env, wordsAfter(cmd, i, {";", " && "})) IN
         [st EXCEPT !.env[x.var] = x.value]
    ELSE IF piece \in {fullClone, shallowClone} /\ running
    THEN [st EXCEPT !.clones = Append(@, shClone(piece, st.env, wordsAfter(cmd, i, {"\";", " && "})))]
    ELSE st

\* the shell over the pieces from..to of the command, in order
RECURSIVE shRange(_, _, _, _)
shRange(cmd, from, to, st) ==
    IF from > to THEN st
    ELSE IF from = to THEN sh(cmd, from, st)
    ELSE LET mid == (from + to) \div 2
             half == shRange(cmd, from, mid, st)
         IN IF Len(half.frames) >= 0 THEN shRange(cmd, mid + 1, to, half) ELSE half

NotRun == [kind |-> "none", env |-> noEnv, clones |-> <<>>]

\* the command run from its first piece in the environment e
runScript(cmd, e) ==
    LET end == shRange(cmd, 1, Len(cmd), [env |-> e, frames |-> <<>>, clones |-> <<>>]) IN
    [kind |-> "ran", env |-> end.env, clones |-> end.clones]

----------------------------------------------------------------------------
(* The circuit breaker and the command it runs *)

\* shouldRetry of the breaker
shouldRetry(err) ==
    /\ ~Falsy(err)
    /\ ~Falsy(reach(err, <<Str("status")>>, Undefined))
    /\ ~(err.v.status.v >= 400 /\ err.v.status.v < 500)

\* _gitlabCommand(options, callback): the options object as the call leaves it
_gitlabCommand(glConfig, opts) ==
    Obj([opts.v EXCEPT
            !.url = Template(glConfig.prefixUrl \o <<"/">> \o text(opts.v.route)),
            !.route = Undefined,
            !.context = Obj([token |-> opts.v.token]),
            !.token = Undefined])

\* request(config): what goes out
requestOf(cfg) ==
    [method |-> cfg.v.method, url |-> cfg.v.url, token |-> cfg.v.context.v.token]

----------------------------------------------------------------------------
(* The API operations.  A breaker command is a record of its method,       *)
(* route and json body; a string made of parts is the sequence of them.    *)

\* getScmUriParts(scmUri).repoId
repoIdOf(scmUri) ==
    LET parts == split(scmUri.v, ":") IN
    IF Len(parts) >= 2 THEN Str(parts[2]) ELSE Undefined

\* arr.includes(x)
includes(arr, x) == \E i \in DOMAIN arr : arr[i] = x

\* _findWebhook: the command it runs
findWebhookCommand(scmUri) ==
    [method |-> "GET",
     route |-> <<"projects/">> \o text(repoIdOf(scmUri)) \o <<"/hooks">>,
     json |-> Undefined]

\* hooks.find(hook => hook.url === url)
RECURSIVE findHook(_, _)
findHook(hooks, url) ==
    IF hooks = <<>> THEN Undefined
    ELSE IF StrictEquals(Head(hooks).v.url, url) THEN Head(hooks)
    ELSE findHook(Tail(hooks), url)

\* a _createWebhook that creates a hook whether or not one exists
createWebhookCommand_alwaysPost(hookInfo, scmUri, url, actions) ==
    [method |-> "POST",
     route |-> <<"projects/">> \o text(repoIdOf(scmUri)) \o <<"/hooks">>,
     json |-> Obj([url |-> url,
                   push_events |-> Bool(TRUE), merge_requests_events |-> Bool(TRUE)])]

\* _createWebhook: the command it runs
createWebhookCommand(hookInfo, scmUri, url, actions) ==
    LET params ==
            Obj([url |-> url,
                 push_events |->
                     Bool(IF Len(actions) = 0 THEN TRUE ELSE includes(actions, "push_events")),
                 merge_requests_events |->
                     Bool(IF Len(actions) = 0 THEN TRUE
                          ELSE includes(actions, "merge_requests_events"))])
        route == <<"projects/">> \o text(repoIdOf(scmUri)) \o <<"/hooks">>
    IN IF ~Falsy(hookInfo)
       THEN [method |-> "PUT", route |-> route \o <<"/">> \o text(hookInfo.v.id),
             json |-> params]
       ELSE [method |-> "POST", route |-> route, json |-> params]

\* _getPermissions: the command it runs
getPermissionsCommand(scmUri) ==
    [method |-> "GET", route |-> <<"projects/">> \o text(repoIdOf(scmUri)), json |-> Undefined]

\* the number Math.max makes of an access level (null counts as 0)
toNumber(x) == IF x.t = "number" THEN x.v ELSE 0

\* a maximum that looks at the project's level only
mathMax_firstOnly(a, b) == toNumber(a)

\* Math.max(a, b)
mathMax(a, b) == IF toNumber(a) >= toNumber(b) THEN toNumber(a) ELSE toNumber(b)

\* _getPermissions: the result it makes of the response body
permissionsOf(body) ==
    LET permissions == reach(body, <<Str("permissions")>>, Undefined)
        projectAccessLevel ==
            reach(permissions, <<Str("project_access"), Str("access_level")>>, Num(0))
        groupAccessLevel ==
            reach(permissions, <<Str("group_access"), Str("access_level")>>, Num(0))
        accessLevel == mathMax(projectAccessLevel, groupAccessLevel)
        admin == accessLevel \in {50, 40}
        push == admin \/ accessLevel = 30
        pull == push \/ accessLevel = 20
    IN Obj([admin |-> Bool(admin), push |-> Bool(push), pull |-> Bool(pull)])

\* the first lines of the notes the adapter writes, per pipeline and job
HeaderMain == "SD Build [#7](https://cd.screwdriver.cd/pipelines/12/builds/7) main"
HeaderDeploy == "SD Build [#9](https://cd.screwdriver.cd/pipelines/12/builds/9) deploy"

\* line.match(PR_COMMENTS_REGEX): null, or the match with the pipeline id
\* and the job name as groups 1 and 2
prCommentsMatch(line) ==
    IF line = <<HeaderMain>> THEN Arr(<<Str(HeaderMain), Str("12"), Str("main")>>)
    ELSE IF line = <<HeaderDeploy>> THEN Arr(<<Str(HeaderDeploy), Str("12"), Str("deploy")>>)
    ELSE Null

\* line.match(PR_COMMENTS_KEYWORD_REGEX): null, or the match with the
\* keyword as group 1
keywordMatch(line) ==
    IF line = <<"__foo__ coverage">> THEN Arr(<<Str("__foo__ coverage"), Str("foo")>>)
    ELSE IF line = <<"__bar__ lint">> THEN Arr(<<Str("__bar__ lint"), Str("bar")>>)
    ELSE Null

\* the callback of prComments.comments.find on one note: "true", "false",
\* or "throw" when it reads the fourth line of a body that has none
isBotComment(commentObj, comment, cfg, pipelineId, jobName) ==
    LET lines == split(commentObj.v.body.v, "\n")
        first == prCommentsMatch(lines[1])
    IN IF ~StrictEquals(commentObj.v.author.v.username, Str(cfg.username)) THEN "false"
       ELSE IF Falsy(first) THEN "false"
       ELSE IF ~StrictEquals(reach(first, <<Num(1)>>, Undefined), Str(ToString(pipelineId.v)))
       THEN "false"
       ELSE IF ~StrictEquals(reach(first, <<Num(2)>>, Undefined), jobName) THEN "false"
       ELSE IF Falsy(comment.v.keyword) THEN "true"
       ELSE IF Len(lines) < 4 THEN "throw"
       ELSE LET keyword == keywordMatch(lines[4]) IN
            IF Falsy(keyword) THEN "false"
            ELSE IF StrictEquals(reach(keyword, <<Num(1)>>, Undefined), comment.v.keyword)
            THEN "true" ELSE "false"

\* prComments.comments.find(...): the note found (or undefined), or a throw
RECURSIVE findBotComment(_, _, _, _, _)
findBotComment(notes, comment, cfg, pipelineId, jobName) ==
    IF notes = <<>> THEN [kind |-> "return", value |-> Undefined]
    ELSE LET is == isBotComment(Head(notes), comment, cfg, pipelineId, jobName) IN
         IF is = "throw" THEN [kind |-> "throw", value |-> Undefined]
         ELSE IF is = "true" THEN [kind |-> "return", value |-> Head(notes)]
         ELSE findBotComment(Tail(notes), comment, cfg, pipelineId, jobName)

\* the route of the notes of a merge request
notesRoute(scmUri, prNum) ==
    <<"projects/">> \o text(repoIdOf(scmUri)) \o <<"/merge_requests/">> \o text(prNum)
        \o <<"/notes">>

\* prComments: the command it runs
prCommentsCommand(scmUri, prNum) ==
    [method |-> "GET", route |-> notesRoute(scmUri, prNum), json |-> Undefined]

\* editPrComment: the command it runs
editPrCommentCommand(commentId, scmUri, prNum, comment) ==
    [method |-> "PUT", route |-> notesRoute(scmUri, prNum) \o <<"/">> \o text(commentId),
     json |-> Obj([body |-> comment])]

\* _addPrComment: the command that creates a note
createPrCommentCommand(scmUri, prNum, comment) ==
    [method |-> "POST", route |-> notesRoute(scmUri, prNum), json |-> Obj([body |-> comment])]

\* prComments: what it returns for what its command settled with
prCommentsOf(settled) ==
    IF settled.kind = "resolved"
    THEN Obj([comments |-> reach(settled.value, <<Str("body")>>, Undefined)])
    ELSE Null

\* prCommentData after the try block of one comment, whose command settled
\* (a rejected edit is the null editPrComment returns)
prCommentDataAfter(prCommentData, settled) ==
    LET pullRequestComment == IF settled.kind = "resolved" THEN settled.value ELSE Null IN
    IF /\ pullRequestComment.t = "object"
       /\ StrictEquals(reach(pullRequestComment, <<Str("statusCode")>>, Undefined), Num(200))
    THEN Append(prCommentData,
             Obj([commentId |-> reach(pullRequestComment, <<Str("body"), Str("id")>>, Undefined),
                  createTime |->
                      reach(pullRequestComment, <<Str("body"), Str("created_at")>>, Undefined),
                  username |->
                      reach(pullRequestComment,
                            <<Str("body"), Str("author"), Str("username")>>, Undefined)]))
    ELSE prCommentData

\* _addPrComment from the head of its loop: the comment at o.i is looked up
\* among the notes and its command runs, or the loop is over and the data
\* is returned
addPrCommentLoop(cfg, o, reqs) ==
    IF o.i > Len(o.comments)
    THEN [op |-> [o EXCEPT !.pc = "done"], requests |-> reqs,
          outcome |-> Resolved(Arr(o.prCommentData))]
    ELSE LET comment == o.comments[o.i]
             found == IF ~Falsy(o.prComments)
                      THEN findBotComment(o.prComments.v.comments.v, comment, cfg,
                                          o.pipelineId, o.jobName)
                      ELSE [kind |-> "return", value |-> Undefined]
         IN IF found.kind = "throw"
            THEN [op |-> [o EXCEPT !.pc = "done"], requests |-> reqs, outcome |-> TypeError]
            ELSE IF ~Falsy(found.value)
            THEN [op |-> [o EXCEPT !.pc = "commenting"],
                  requests |-> Append(reqs, editPrCommentCommand(found.value.v.id, o.scmUri,
                                                                 o.prNum, comment.v.text)),
                  outcome |-> NotCalled]
            ELSE [op |-> [o EXCEPT !.pc = "commenting"],
                  requests |-> Append(reqs, createPrCommentCommand(o.scmUri, o.prNum,
                                                                   comment.v.text)),
                  outcome |-> NotCalled]

----------------------------------------------------------------------------
(* Inputs *)

\* the validated configurations the constructor can leave in this.config
emptyObject == [k \in {} |-> Undefined]

\* this.config after Joi has applied the defaults of the constructor
Configs ==
    [gitlabProtocol : {"https"},
     gitlabHost : {"gitlab.com", "gitlab.example.com"},
     username : {"sd-buildbot"},
     email : {"dev-null@screwdriver.cd"},
     readOnly : {Obj(emptyObject)}]

\* this.gitlabConfig as the constructor sets it
gitlabConfigOf(cfg) ==
    [prefixUrl |-> <<cfg.gitlabProtocol, "://", cfg.gitlabHost, "/api/v4">>]

HeaderKeys == {"x-gitlab-event", "X-Gitlab-Event"}
HeaderMaps == UNION {[K -> {"hook"}] : K \in SUBSET HeaderKeys}

RefMaster == <<"r", "/", "h", "/", "m">>
RefNested == <<"r", "/", "h", "/", "a", "/", "b">>
Refs == {Undefined, Str(RefMaster), Str(RefNested)}

Authors == {Undefined, Obj([name |-> Undefined]),
            Obj([name |-> Str("Jordi")]), Obj([name |-> Str("Dev")])}

\* what a commit carries besides its author
bareCommit == [message |-> Undefined, added |-> Undefined, modified |-> Undefined,
               removed |-> Undefined]
readmeCommit == [message |-> Str("fixed readme"), added |-> Arr(<<Str("CHANGELOG")>>),
                 modified |-> Arr(<<Str("app.rb")>>), removed |-> Arr(<<>>)]
cleanupCommit == [message |-> Str("cleanup"), added |-> Arr(<<>>),
                  modified |-> Undefined, removed |-> Arr(<<Str("old.rb")>>)]
CommitDetails == {bareCommit, readmeCommit, cleanupCommit}

Commits == {Obj([author |-> a, message |-> d.message, added |-> d.added,
                 modified |-> d.modified, removed |-> d.removed]) :
                a \in Authors, d \in CommitDetails}

CommitLists == {Undefined} \cup {Arr(s) : s \in UNION {[1..n -> Commits] : n \in 0..MaxCommits}}

ProjectIds == {Undefined, Num(1), Num(2)}
States == {Undefined, Str("opened"), Str("closed"), Str("merged"), Str("locked")}
LastCommits == {Undefined, Obj([id |-> Str("249b26f")])}

MergeRequests == {Undefined} \cup
    {Obj([state |-> s, iid |-> Num(6), title |-> Str("fix tabby cat"),
          target_project_id |-> t, source_project_id |-> h,
          target_branch |-> Str("master"), last_commit |-> c]) :
        s \in States, t \in ProjectIds, h \in ProjectIds, c \in LastCommits}

Project == Obj([git_ssh_url |-> Str("git@example.com:mike/diaspora.git")])

emptyPayload ==
    [object_kind |-> Undefined, event_name |-> Undefined, ref |-> Undefined,
     checkout_sha |-> Undefined, user_username |-> Undefined, user |-> Undefined,
     project |-> Undefined, commits |-> Undefined, object_attributes |-> Undefined]

MergeRequestPayloads ==
    {Obj([emptyPayload EXCEPT !.object_kind = Str("merge_request"),
                              !.checkout_sha = c,
                              !.user = Obj([username |-> Str("bdangit")]),
                              !.project = Project,
                              !.object_attributes = mr]) :
        mr \in MergeRequests, c \in {Undefined, Str("da15608")}}

EventNames == {Undefined, Str("push"), Str("tag_push")}

PushPayloads ==
    {Obj([emptyPayload EXCEPT !.object_kind = Str("push"),
                              !.event_name = e,
                              !.ref = r,
                              !.checkout_sha = Str("da15608"),
                              !.user_username = Str("jsmith"),
                              !.project = Project,
                              !.commits = c]) :
        e \in EventNames, r \in Refs, c \in CommitLists}

OtherPayloads ==
    {Obj([emptyPayload EXCEPT !.object_kind = k]) : k \in {Undefined, Str("note"), Str("tag_push")}}

Payloads == MergeRequestPayloads \cup PushPayloads \cup OtherPayloads

----------------------------------------------------------------------------
(* The state machine *)

noHeaders == [k \in {} |-> "hook"]

\* no delivery in hand
hookIdle ==
    /\ phase = "idle"
    /\ headers = noHeaders
    /\ payload = Obj(emptyPayload)
    /\ parsed = NotCalled
    /\ handled = NotCalled

\* no plan in hand
checkoutIdle == plan = Undefined /\ checkout = NotCalled

\* no breaker command in hand
breakerIdle ==
    /\ options = Undefined
    /\ sent = <<>>
    /\ failures = <<>>
    /\ reply = NotCalled

\* no API operation in hand
apiIdle ==
    /\ op = [name |-> "none"]
    /\ requests = <<>>
    /\ outcome = NotCalled

\* no build running a checkout command
scriptIdle == env = noEnv /\ ran = NotRun

Init ==
    /\ config \in Configs
    /\ phase = "idle"
    /\ headers = noHeaders
    /\ payload = Obj(emptyPayload)
    /\ parsed = NotCalled
    /\ handled = NotCalled
    /\ gitlabConfig = gitlabConfigOf(config)
    /\ plan = Undefined
    /\ checkout = NotCalled
    /\ calls = <<>>
    /\ breakerIdle
    /\ apiIdle
    /\ scriptIdle

\* the platform receives a webhook delivery
Deliver ==
    /\ phase = "idle"
    /\ \E h \in HeaderMaps, p \in Payloads :
        /\ headers' = h
        /\ payload' = p
    /\ phase' = "delivered"
    /\ parsed' = NotCalled
    /\ handled' = NotCalled
    /\ UNCHANGED <<instanceVars, checkoutVars, calls, breakerVars, apiVars, scriptVars>>

\* scm.parseHook(headers, payload)
ParseHook ==
    /\ phase = "delivered"
    /\ parsed' = _parseHook(config, headers, payload)
    /\ UNCHANGED <<instanceVars, checkoutVars, calls, breakerVars, apiVars, phase, headers, payload, handled, scriptVars>>

\* scm.canHandleWebhook(headers, payload)
CanHandleWebhook ==
    /\ phase = "delivered"
    /\ handled' = _canHandleWebhook(config, headers, payload)
    /\ UNCHANGED <<instanceVars, checkoutVars, calls, breakerVars, apiVars, phase, headers, payload, parsed, scriptVars>>

\* the platform is done with the delivery
Finish ==
    /\ phase = "delivered"
    /\ phase' = "idle"
    /\ headers' = noHeaders
    /\ payload' = Obj(emptyPayload)
    /\ parsed' = NotCalled
    /\ handled' = NotCalled
    /\ UNCHANGED <<instanceVars, checkoutVars, calls, breakerVars, apiVars, scriptVars>>

Next == Deliver \/ ParseHook \/ CanHandleWebhook \/ Finish

Spec == Init /\ [][Next]_vars

----------------------------------------------------------------------------
(* The checkout machine: one getCheckoutCommand call at a time *)

\* this.config of an adapter whose readOnly settings matter
CheckoutConfigs ==
    [gitlabProtocol : {"https"},
     gitlabHost : {"gitlab.com"},
     username : {"sd-buildbot"},
     email : {"dev-null@screwdriver.cd"},
     readOnly : {Obj(emptyObject),
                 Obj([cloneType |-> Str("https")]),
                 Obj([enabled |-> Bool(FALSE), cloneType |-> Str("ssh")]),
                 Obj([enabled |-> Bool(TRUE), cloneType |-> Str("https")]),
                 Obj([enabled |-> Bool(TRUE), cloneType |-> Str("ssh")])}]

ParentConfigs ==
    {Undefined,
     Obj([branch |-> Str(<<"master">>), host |-> Str(<<"github.com">>),
          org |-> Str(<<"screwdriver-cd">>), repo |-> Str(<<"parent-to-guide">>),
          sha |-> Str(<<"54321">>)])}

\* the plans the platform hands to getCheckoutCommand
Plans ==
    {Obj(r) : r \in
        [branch : {Str(<<"branchName">>)},
         commitBranch : {Undefined, Str(<<>>), Str(<<"commitBranch">>)},
         host : {Str(<<"hostName">>)},
         org : {Str(<<"orgName">>)},
         repo : {Str(<<"repoName">>)},
         sha : {Str(<<"shaValue">>)},
         rootDir : {Undefined, Str(<<>>), Str(<<"path/to/source">>)},
         prRef : {Undefined, Str(<<"prBranch">>), Str(<<"merge", "_requests/6">>),
                  Str(<<"pull/6/", "merge">>)},
         prSource : {Undefined, Str(<<"branch">>), Str(<<"fork">>)},
         prBranchName : {Undefined, Str(<<"prBranchName">>)},
         parentConfig : ParentConfigs]}

InitCheckout ==
    /\ config \in CheckoutConfigs
    /\ gitlabConfig = gitlabConfigOf(config)
    /\ hookIdle
    /\ checkoutIdle
    /\ calls = <<>>
    /\ breakerIdle
    /\ apiIdle
    /\ scriptIdle

\* the platform prepares the checkout of a build
PlanCheckout ==
    /\ plan.t = "undefined"
    /\ plan' \in Plans
    /\ checkout' = NotCalled
    /\ UNCHANGED <<instanceVars, hookVars, calls, breakerVars, apiVars, scriptVars>>

\* scm.getCheckoutCommand(plan)
GetCheckoutCommand ==
    /\ plan.t = "object"
    /\ checkout.kind = "none"
    /\ checkout' = _getCheckoutCommand(config, plan)
    /\ UNCHANGED <<instanceVars, hookVars, calls, breakerVars, apiVars, plan, scriptVars>>

\* the platform is done with the plan
FinishCheckout ==
    /\ checkout.kind # "none"
    /\ plan' = Undefined
    /\ checkout' = NotCalled
    /\ UNCHANGED <<instanceVars, hookVars, calls, breakerVars, apiVars, scriptVars>>

NextCheckout == PlanCheckout \/ GetCheckoutCommand \/ FinishCheckout

SpecCheckout == InitCheckout /\ [][NextCheckout]_vars

----------------------------------------------------------------------------
(* The build machine: the platform plans a checkout, asks the adapter for   *)
(* the command, and the build's shell runs it in the build's environment.   *)

\* the environments a build can run the command in
Envs ==
    {[noEnv EXCEPT !["SCM_CLONE_TYPE"] = cloneType,
                   !["SCM_USERNAME"] = username,
                   !["SCM_ACCESS_TOKEN"] = token,
                   !["GIT_SHALLOW_CLONE"] = shallow,
                   !["GIT_SHALLOW_CLONE_SINCE"] = since,
                   !["GIT_SHALLOW_CLONE_DEPTH"] = depth,
                   !["GIT_SHALLOW_CLONE_SINGLE_BRANCH"] = single] :
        cloneType \in {<<>>, <<"ssh">>, <<"https">>},
        username \in {<<>>, <<"sd-buildbot">>},
        token \in {<<>>, <<"glpat-1">>},
        shallow \in {<<>>, <<"false">>, <<"true">>},
        since \in {<<>>, <<"2 weeks ago">>},
        depth \in {<<>>, <<"10">>},
        single \in {<<>>, <<"true">>}}

\* the plans of the builds: with and without a parent, with and without a
\* pull request
BuildPlans ==
    {p \in Plans :
        /\ p.v.commitBranch = Undefined
        /\ p.v.rootDir = Undefined
        /\ p.v.prSource = Undefined
        /\ p.v.prBranchName = Undefined
        /\ p.v.prRef \in {Undefined, Str(<<"pull/6/", "merge">>)}}

\* the platform prepares the checkout of a build that runs in some environment
StartBuild ==
    /\ plan.t = "undefined"
    /\ scriptIdle
    /\ plan' \in BuildPlans
    /\ checkout' = NotCalled
    /\ env' \in Envs
    /\ ran' = NotRun
    /\ UNCHANGED <<instanceVars, hookVars, calls, breakerVars, apiVars>>

\* the build's shell runs the command the adapter resolved
RunScript ==
    /\ checkout.kind = "resolved"
    /\ ran.kind = "none"
    /\ ran' = runScript(checkout.value.v.command.v, env)
    /\ UNCHANGED <<instanceVars, hookVars, checkoutVars, calls, breakerVars, apiVars, env>>

\* the build is over
FinishBuild ==
    /\ ran.kind = "ran"
    /\ plan' = Undefined
    /\ checkout' = NotCalled
    /\ env' = noEnv
    /\ ran' = NotRun
    /\ UNCHANGED <<instanceVars, hookVars, calls, breakerVars, apiVars>>

NextScript == StartBuild \/ GetCheckoutCommand \/ RunScript \/ FinishBuild

SpecScript == InitCheckout /\ [][NextScript]_vars

----------------------------------------------------------------------------
(* The breaker machine: this.breaker.runCommand(options) calls              *)
(* _gitlabCommand, and calls it again with the same arguments while the     *)
(* attempt failed, shouldRetry says so and retries are left.                *)

\* the options the adapter's methods hand to runCommand
Commands ==
    {Obj([method |-> m, route |-> Str(r), token |-> Str("token"),
          url |-> Undefined, context |-> Undefined]) :
        m \in {"GET", "POST"},
        r \in {<<"projects/", "1", "/hooks">>, <<"projects/", "1">>}}

\* the errors an attempt can end with: with the status of the response, or
\* with no status at all
Errors ==
    {Obj(emptyObject)} \cup {Obj([status |-> Num(n)]) : n \in {400, 404, 499, 500, 503}}

\* the responses an attempt can end with
Responses == {Obj([statusCode |-> Num(n)]) : n \in {200, 201}}

InitBreaker ==
    /\ config \in Configs
    /\ gitlabConfig = gitlabConfigOf(config)
    /\ hookIdle
    /\ checkoutIdle
    /\ calls = <<>>
    /\ breakerIdle
    /\ apiIdle
    /\ scriptIdle

attemptPending == Len(failures) < Len(sent) /\ reply.kind = "none"
attemptFailed == sent # <<>> /\ Len(failures) = Len(sent) /\ reply.kind = "none"
retriesLeft == Len(sent) <= MaxRetries

\* this.breaker.runCommand(options): the first attempt
RunCommand ==
    /\ sent = <<>>
    /\ \E o \in Commands :
        LET cfg == _gitlabCommand(gitlabConfig, o) IN
        /\ options' = cfg
        /\ sent' = <<requestOf(cfg)>>
    /\ UNCHANGED <<failures, reply>>
    /\ UNCHANGED <<instanceVars, hookVars, checkoutVars, calls, apiVars, scriptVars>>

\* request(config) settles: callback(null, response) or callback(err)
Respond ==
    /\ attemptPending
    /\ \/ \E r \in Responses : reply' = Resolved(r) /\ UNCHANGED failures
       \/ \E e \in Errors : failures' = Append(failures, e) /\ UNCHANGED reply
    /\ UNCHANGED <<options, sent>>
    /\ UNCHANGED <<instanceVars, hookVars, checkoutVars, calls, apiVars, scriptVars>>

\* the breaker calls _gitlabCommand again, with the options object it has
Retry ==
    /\ attemptFailed
    /\ shouldRetry(failures[Len(failures)])
    /\ retriesLeft
    /\ LET cfg == _gitlabCommand(gitlabConfig, options) IN
        /\ options' = cfg
        /\ sent' = Append(sent, requestOf(cfg))
    /\ UNCHANGED <<failures, reply>>
    /\ UNCHANGED <<instanceVars, hookVars, checkoutVars, calls, apiVars, scriptVars>>

\* the breaker rejects with the error of the last attempt
GiveUp ==
    /\ attemptFailed
    /\ ~(shouldRetry(failures[Len(failures)]) /\ retriesLeft)
    /\ reply' = RejectedWith(failures[Len(failures)])
    /\ UNCHANGED <<options, sent, failures>>
    /\ UNCHANGED <<instanceVars, hookVars, checkoutVars, calls, apiVars, scriptVars>>

\* the caller has the reply
FinishCommand ==
    /\ reply.kind # "none"
    /\ options' = Undefined
    /\ sent' = <<>>
    /\ failures' = <<>>
    /\ reply' = NotCalled
    /\ UNCHANGED <<instanceVars, hookVars, checkoutVars, calls, apiVars, scriptVars>>

NextBreaker == RunCommand \/ Respond \/ Retry \/ GiveUp \/ FinishCommand

SpecBreaker == InitBreaker /\ [][NextBreaker]_vars

----------------------------------------------------------------------------
(* The API machine: one operation at a time.  An operation runs breaker    *)
(* commands; each command settles with a response or with an error, and    *)
(* the operation goes on from there in the same step.                       *)

ScmUris == {Str(<<"gitlab.com", ":", "12345", ":", "master">>)}

WebhookUrls == {Str("https://api.screwdriver.cd/v4/webhooks"), Str("https://example.com/hook")}

Hooks == {Obj([id |-> Num(i), url |-> u]) : i \in {7, 8}, u \in WebhookUrls}

HookLists == UNION {[1..n -> Hooks] : n \in 0..MaxHooks}

ActionLists == {<<>>, <<"push_events">>, <<"merge_requests_events", "push_events">>}

AccessLevels == {0, 10, 20, 30, 40, 50, 90}

\* project_access and group_access of a project: absent, null or a level
Accesses ==
    {Undefined, Null, Obj([access_level |-> Null])}
        \cup {Obj([access_level |-> Num(l)]) : l \in AccessLevels}

\* the bodies a project answers with
ProjectBodies ==
    {Obj(emptyObject)} \cup
    {Obj([permissions |-> Obj([project_access |-> p, group_access |-> g])]) :
        p \in Accesses, g \in Accesses}

botNote(id, body) ==
    Obj([id |-> Num(id), author |-> Obj([username |-> Str("sd-buildbot")]),
         body |-> Str(body)])

\* the notes of a merge request: three of the adapter's user (one with a
\* keyword line, one of a single line, one of another job) and one of a
\* reviewer
Notes ==
    {botNote(101, <<HeaderMain, "\n", "_main - 249b26f_", "\n", "\n", "__foo__ coverage">>),
     botNote(102, <<HeaderMain>>),
     botNote(103, <<HeaderDeploy, "\n", "_deploy - 249b26f_", "\n", "\n", "__foo__ coverage">>),
     Obj([id |-> Num(104), author |-> Obj([username |-> Str("tkyi")]),
          body |-> Str(<<"LGTM">>)])}

NoteLists == UNION {[1..n -> Notes] : n \in 0..MaxNotes}

\* the comments of a build: with and without a keyword
Comments ==
    {Obj([text |-> Str("this was a great PR"), keyword |-> Undefined]),
     Obj([text |-> Str("coverage is 80%"), keyword |-> Str("foo")])}

CommentLists == UNION {[1..n -> Comments] : n \in 0..MaxComments}

\* what the command of one comment settles with
CommentAnswers ==
    {Resolved(Obj([statusCode |-> Num(code),
                   body |-> Obj([id |-> Num(id), created_at |-> Str("2018-12-21T20:33:33.157Z"),
                                 author |-> Obj([username |-> Str("tkyi")])])])) :
        code \in {200, 201, 404}, id \in {1, 2}}
    \cup {RejectedWith(e) : e \in {Obj(emptyObject), Obj([status |-> Num(404)])}}

InitApi ==
    /\ config \in Configs
    /\ gitlabConfig = gitlabConfigOf(config)
    /\ hookIdle
    /\ checkoutIdle
    /\ calls = <<>>
    /\ breakerIdle
    /\ apiIdle
    /\ scriptIdle

\* scm.addWebhook(config): _findWebhook runs its command
AddWebhook ==
    /\ op.name = "none"
    /\ \E scmUri \in ScmUris, actions \in ActionLists :
        /\ op' = [name |-> "addWebhook", pc |-> "listing", scmUri |-> scmUri,
                  webhookUrl |-> Str("https://api.screwdriver.cd/v4/webhooks"),
                  actions |-> actions, listed |-> NotCalled]
        /\ requests' = <<findWebhookCommand(scmUri)>>
    /\ UNCHANGED outcome
    /\ UNCHANGED <<instanceVars, hookVars, checkoutVars, calls, breakerVars, scriptVars>>

\* the listing settles: with an error _addWebhook rejects, with the hooks
\* _createWebhook runs its command
HooksListed ==
    /\ op.name = "addWebhook" /\ op.pc = "listing"
    /\ \/ \E e \in Errors :
            /\ op' = [op EXCEPT !.pc = "done", !.listed = RejectedWith(e)]
            /\ outcome' = RejectedWith(e)
            /\ UNCHANGED requests
       \/ \E hooks \in HookLists :
            LET response == Obj([statusCode |-> Num(200), body |-> Arr(hooks)])
                hookInfo == findHook(response.v.body.v, op.webhookUrl)
            IN /\ op' = [op EXCEPT !.pc = "writing", !.listed = Resolved(response)]
               /\ requests' = Append(requests,
                      createWebhookCommand(hookInfo, op.scmUri, op.webhookUrl, op.actions))
               /\ UNCHANGED outcome
    /\ UNCHANGED <<instanceVars, hookVars, checkoutVars, calls, breakerVars, scriptVars>>

\* the write settles, and _addWebhook with it
HookWritten ==
    /\ op.name = "addWebhook" /\ op.pc = "writing"
    /\ \/ \E e \in Errors : outcome' = RejectedWith(e)
       \/ \E r \in Responses : outcome' = Resolved(r)
    /\ op' = [op EXCEPT !.pc = "done"]
    /\ UNCHANGED requests
    /\ UNCHANGED <<instanceVars, hookVars, checkoutVars, calls, breakerVars, scriptVars>>

\* scm.getPermissions(config): the command for the project
GetPermissions ==
    /\ op.name = "none"
    /\ \E scmUri \in ScmUris :
        /\ op' = [name |-> "getPermissions", pc |-> "asking", scmUri |-> scmUri,
                  asked |-> NotCalled]
        /\ requests' = <<getPermissionsCommand(scmUri)>>
    /\ UNCHANGED outcome
    /\ UNCHANGED <<instanceVars, hookVars, checkoutVars, calls, breakerVars, scriptVars>>

\* the project settles, and _getPermissions with it
PermissionsAnswered ==
    /\ op.name = "getPermissions" /\ op.pc = "asking"
    /\ \/ \E e \in Errors :
            /\ op' = [op EXCEPT !.pc = "done", !.asked = RejectedWith(e)]
            /\ outcome' = RejectedWith(e)
       \/ \E body \in ProjectBodies :
            LET response == Obj([statusCode |-> Num(200), body |-> body]) IN
            /\ op' = [op EXCEPT !.pc = "done", !.asked = Resolved(response)]
            /\ outcome' = Resolved(permissionsOf(response.v.body))
    /\ UNCHANGED requests
    /\ UNCHANGED <<instanceVars, hookVars, checkoutVars, calls, breakerVars, scriptVars>>

\* scm.addPrComment(config): prComments runs its command
AddPrComment ==
    /\ op.name = "none"
    /\ \E scmUri \in ScmUris, comments \in CommentLists :
        /\ op' = [name |-> "addPrComment", pc |-> "listing", scmUri |-> scmUri,
                  comments |-> comments, prNum |-> Num(6), pipelineId |-> Num(12),
                  jobName |-> Str("main"), prComments |-> Undefined, i |-> 1,
                  answers |-> <<>>, prCommentData |-> <<>>]
        /\ requests' = <<prCommentsCommand(scmUri, Num(6))>>
    /\ UNCHANGED outcome
    /\ UNCHANGED <<instanceVars, hookVars, checkoutVars, calls, breakerVars, scriptVars>>

\* the notes settle, and the loop over the comments starts
NotesListed ==
    /\ op.name = "addPrComment" /\ op.pc = "listing"
    /\ \E settled \in {RejectedWith(e) : e \in Errors}
                     \cup {Resolved(Obj([statusCode |-> Num(200), body |-> Arr(notes)])) :
                              notes \in NoteLists} :
        LET next == addPrCommentLoop(config, [op EXCEPT !.prComments = prCommentsOf(settled)],
                                     requests)
        IN /\ op' = next.op
           /\ requests' = next.requests
           /\ outcome' = next.outcome
    /\ UNCHANGED <<instanceVars, hookVars, checkoutVars, calls, breakerVars, scriptVars>>

\* the command of the comment in hand settles, and the loop goes on
CommentAnswered ==
    /\ op.name = "addPrComment" /\ op.pc = "commenting"
    /\ \E settled \in CommentAnswers :
        LET next == addPrCommentLoop(config,
                        [op EXCEPT !.i = op.i + 1,
                                   !.answers = Append(op.answers, settled),
                                   !.prCommentData = prCommentDataAfter(op.prCommentData, settled)],
                        requests)
        IN /\ op' = next.op
           /\ requests' = next.requests
           /\ outcome' = next.outcome
    /\ UNCHANGED <<instanceVars, hookVars, checkoutVars, calls, breakerVars, scriptVars>>

\* the caller has the outcome of the operation
FinishApi ==
    /\ op.name # "none" /\ op.pc = "done"
    /\ op' = [name |-> "none"]
    /\ requests' = <<>>
    /\ outcome' = NotCalled
    /\ UNCHANGED <<instanceVars, hookVars, checkoutVars, calls, breakerVars, scriptVars>>

NextApi ==
    \/ AddWebhook \/ HooksListed \/ HookWritten
    \/ GetPermissions \/ PermissionsAnswered
    \/ AddPrComment \/ NotesListed \/ CommentAnswered
    \/ FinishApi

SpecApi == InitApi /\ [][NextApi]_vars

----------------------------------------------------------------------------
(* Concurrent callers of one adapter.  _parseHook and _getCheckoutCommand  *)
(* are async functions without an await: a call runs to its return in one  *)
(* step, and the callers collect the settled promises in any order.        *)

Callers == 1..MaxCalls

noCall == [name |-> "none"]

\* the plans the concurrent callers ask for
ConcurrentPlans ==
    {p \in Plans : /\ p.v.commitBranch.t = "undefined"
                   /\ p.v.rootDir.t = "undefined"
                   /\ p.v.prSource.t = "undefined"
                   /\ p.v.prBranchName.t = "string"}

\* the deliveries the concurrent callers hand over
ConcurrentDeliveries ==
    {[headers |-> h, payload |-> p] :
        h \in {m \in HeaderMaps : DOMAIN m \subseteq {"x-gitlab-event"}},
        p \in {Obj(emptyPayload)} \cup
              {m \in MergeRequestPayloads :
                  /\ m.v.object_attributes.t = "object"
                  /\ m.v.object_attributes.v.state = Str("opened")
                  /\ m.v.object_attributes.v.target_project_id = Num(1)
                  /\ m.v.object_attributes.v.source_project_id.t = "number"
                  /\ m.v.object_attributes.v.last_commit.t = "object"}}

InitConcurrent ==
    /\ config \in CheckoutConfigs
    /\ gitlabConfig = gitlabConfigOf(config)
    /\ hookIdle
    /\ checkoutIdle
    /\ calls = [i \in Callers |-> noCall]
    /\ breakerIdle
    /\ apiIdle
    /\ scriptIdle

\* a getCheckoutCommand that leaves the adapter switched to read-only ssh
CallGetCheckoutCommand_switchesReadOnly(i) ==
    /\ calls[i].name = "none"
    /\ \E p \in ConcurrentPlans :
          calls' = [calls EXCEPT ![i] = [name |-> "getCheckoutCommand", plan |-> p,
                                         result |-> _getCheckoutCommand(config, p)]]
    /\ config' = [config EXCEPT !.readOnly =
                      Obj([enabled |-> Bool(TRUE), cloneType |-> Str("ssh")])]
    /\ UNCHANGED <<gitlabConfig, hookVars, checkoutVars, breakerVars, apiVars, scriptVars>>

\* caller i: scm.parseHook(headers, payload)
CallParseHook(i) ==
    /\ calls[i].name = "none"
    /\ \E d \in ConcurrentDeliveries :
          calls' = [calls EXCEPT ![i] = [name |-> "parseHook", headers |-> d.headers,
                                         payload |-> d.payload,
                                         result |-> _parseHook(config, d.headers, d.payload)]]
    /\ UNCHANGED <<instanceVars, hookVars, checkoutVars, breakerVars, apiVars, scriptVars>>

\* caller i: scm.getCheckoutCommand(plan)
CallGetCheckoutCommand(i) ==
    /\ calls[i].name = "none"
    /\ \E p \in ConcurrentPlans :
          calls' = [calls EXCEPT ![i] = [name |-> "getCheckoutCommand", plan |-> p,
                                         result |-> _getCheckoutCommand(config, p)]]
    /\ UNCHANGED <<instanceVars, hookVars, checkoutVars, breakerVars, apiVars, scriptVars>>

\* caller i has its promise and goes on
Collect(i) ==
    /\ calls[i].name # "none"
    /\ calls' = [calls EXCEPT ![i] = noCall]
    /\ UNCHANGED <<instanceVars, hookVars, checkoutVars, breakerVars, apiVars, scriptVars>>

NextConcurrent ==
    \E i \in Callers : CallParseHook(i) \/ CallGetCheckoutCommand(i) \/ Collect(i)

SpecConcurrent == InitConcurrent /\ [][NextConcurrent]_vars

----------------------------------------------------------------------------
(* What the delivery in hand looks like, read off the inputs *)

parseHookCalled == parsed.kind # "none"
canHandleCalled == handled.kind # "none"

headerKeys == DOMAIN headers
headerPresent == "x-gitlab-event" \in headerKeys

\* the header key in lower case
lowerCase(k) == IF k = "X-Gitlab-Event" THEN "x-gitlab-event" ELSE k

stringOr(x, absent) == IF x.t = "string" THEN x.v ELSE absent

objectKind == stringOr(payload.v.object_kind, "(absent)")
eventName == stringOr(payload.v.event_name, "(absent)")
mergeRequestOf == payload.v.object_attributes
mergeRequestState ==
    IF mergeRequestOf.t = "object" THEN stringOr(mergeRequestOf.v.state, "(absent)")
    ELSE "(absent)"
commitsOf == payload.v.commits
refPresent == payload.v.ref.t = "string"

rejectedWith400 == parsed.kind = "rejected" /\ parsed.statusCode = Num(400)
resolvedNull == parsed.kind = "resolved" /\ parsed.value.t = "null"
resolvedEvent == parsed.kind = "resolved" /\ parsed.value.t = "object"
event == parsed.value.v

----------------------------------------------------------------------------
(* Claims *)

C2_CanHandleNeverRejects ==
    canHandleCalled =>
        /\ handled.kind = "resolved"
        /\ handled.value.t = "boolean"
        /\ handled.value.v \in BOOLEAN

\* parseHook threw a TypeError on a push without ref, canHandleWebhook resolved
C2_Witness ==
    /\ parseHookCalled /\ canHandleCalled
    /\ headerPresent /\ objectKind = "push" /\ ~refPresent
    /\ parsed.kind = "rejected" /\ ~rejectedWith400
    /\ handled = Resolved(Bool(FALSE))

\* C3: canHandleWebhook resolves true exactly when parseHook succeeds and
\* resolves a non-null event; when parseHook resolves null it resolves false.
C3_CanHandleIffEvent ==
    (parseHookCalled /\ canHandleCalled) =>
        (handled = Resolved(Bool(TRUE)) <=> resolvedEvent)

C5_UnsupportedKindResolvesNull ==
    (parseHookCalled /\ headerPresent /\ objectKind \notin {"merge_request", "push"}) =>
        resolvedNull

C5_Witness ==
    /\ parseHookCalled /\ headerPresent
    /\ objectKind = "(absent)"
    /\ resolvedNull

\* C6: with the header present, a merge_request payload whose state is not
\* opened, closed or merged, also one with no object_attributes, makes
\* parseHook resolve null.
C6_UnactionableStateResolvesNull ==
    (/\ parseHookCalled /\ headerPresent
     /\ objectKind = "merge_request"
     /\ mergeRequestState \notin {"opened", "closed", "merged"}) =>
        resolvedNull

C6_Witness ==
    /\ parseHookCalled /\ headerPresent
    /\ objectKind = "merge_request"
    /\ mergeRequestOf.t = "object" /\ mergeRequestState = "locked"
    /\ resolvedNull

C8_PrSourceBranchOrFork ==
    (/\ parseHookCalled /\ headerPresent
     /\ objectKind = "merge_request"
     /\ mergeRequestState \in {"opened", "closed", "merged"}) =>
        /\ resolvedEvent
        /\ event.prSource =
               IF mergeRequestOf.v.source_project_id = mergeRequestOf.v.target_project_id
               THEN Str("branch") ELSE Str("fork")

C8_Witness ==
    /\ parseHookCalled /\ headerPresent
    /\ objectKind = "merge_request" /\ mergeRequestState = "opened"
    /\ mergeRequestOf.v.source_project_id = Num(2)
    /\ mergeRequestOf.v.target_project_id = Num(1)
    /\ resolvedEvent
    /\ event.prSource = Str("fork")

\* C9: a payload of object_kind 'push' whose event_name is not exactly "push"
\* makes parseHook resolve null.
\* the commit list is absent or holds no commit
noCommits == ~IsArray(commitsOf) \/ commitsOf.v = <<>>

\* every commit of the list names its author
authorsPresent ==
    IsArray(commitsOf) =>
        \A i \in DOMAIN commitsOf.v : commitsOf.v[i].v.author.t = "object"

\* C9: a payload of object_kind 'push' whose event_name is not exactly "push"
\* makes parseHook resolve null.  (Stated on the payloads that carry their ref
\* and the authors of their commits, on which parseHook does not raise.)
C9_ForeignPushResolvesNull ==
    (/\ parseHookCalled /\ headerPresent
     /\ objectKind = "push" /\ eventName # "push"
     /\ refPresent /\ authorsPresent) =>
        resolvedNull

C11_OnlyMissingHeaderRaises ==
    (parseHookCalled /\ headerPresent) => (resolvedEvent \/ resolvedNull)

----------------------------------------------------------------------------
(* What the checkout in hand looks like *)

checkoutCalled == checkout.kind # "none"
checkoutResolved == checkout.kind = "resolved"

\* the pieces of the command string of the resolved checkout
commandText == checkout.value.v.command.v

\* where a piece occurs in the command
positions(piece) == {i \in DOMAIN commandText : commandText[i] = piece}

\* the command ends with these pieces
endsWith(pieces) ==
    /\ Len(commandText) >= Len(pieces)
    /\ SubSeq(commandText, Len(commandText) - Len(pieces) + 1, Len(commandText)) = pieces

\* the pieces follow position i of the command
followedBy(i, pieces) ==
    /\ i + Len(pieces) <= Len(commandText)
    /\ SubSeq(commandText, i + 1, i + Len(pieces)) = pieces

hasRootDir == plan.t = "object" /\ ~Falsy(plan.v.rootDir)
hasParentConfig == plan.t = "object" /\ ~Falsy(plan.v.parentConfig)
hasPrRef == plan.t = "object" /\ ~Falsy(plan.v.prRef)

\* the pieces that say git clone, reset, fetch, merge or submodule
gitPieces ==
    {i \in DOMAIN commandText :
        commandText[i] \in
            {"$SCM_URL", "$CONFIG_URL",
             "$SD_GIT_WRAPPER \"git reset --hard '",
             "$SD_GIT_WRAPPER \"git -C $SD_CONFIG_DIR reset --hard ",
             "$SD_GIT_WRAPPER \"git fetch origin ",
             "$SD_GIT_WRAPPER \"git merge ",
             "$SD_GIT_WRAPPER \"git submodule init\";",
             "$SD_GIT_WRAPPER \"git submodule update --init --recursive\";"}}

\* C13: with a rootDir the command ends with the step 'cd <rootDir>', which
\* comes after every clone, reset, fetch, merge and submodule piece; with no
\* rootDir (absent or empty) no piece of the command is a cd and the command
\* ends with the submodule step.
C13_CdRootDirIsLastStep ==
    checkoutResolved =>
        IF hasRootDir
        THEN /\ endsWith(<<" && ", "cd ">> \o plan.v.rootDir.v)
             /\ \A i \in gitPieces : i < Len(commandText) - Len(plan.v.rootDir.v) - 1
             /\ gitPieces # {}
        ELSE /\ positions("cd ") = {}
             /\ endsWith(<<"$SD_GIT_WRAPPER \"git submodule update --init --recursive\";",
                           " ", "fi">>)

C13_Witness ==
    /\ checkoutResolved /\ hasRootDir /\ hasParentConfig /\ hasPrRef
    /\ endsWith(<<" && ", "cd ", "path/to/source">>)

parentClones == positions("$CONFIG_URL")
parentResets == positions("$SD_GIT_WRAPPER \"git -C $SD_CONFIG_DIR reset --hard ")
primaryClones == positions("$SCM_URL")

\* C14: with a parentConfig the command clones the parent repository, then
\* resets it hard to parentConfig.sha, and only then clones the repository
\* itself; with no parentConfig it has no parent clone and no parent reset.
C14_ParentCloneResetBeforePrimary ==
    checkoutResolved =>
        IF hasParentConfig
        THEN /\ parentClones # {} /\ primaryClones # {}
             /\ Cardinality(parentResets) = 1
             /\ \A r \in parentResets :
                    /\ followedBy(r, plan.v.parentConfig.v.sha.v \o <<" --\"">>)
                    /\ \A c \in parentClones : c < r
                    /\ \A c \in primaryClones : r < c
        ELSE parentClones = {} /\ parentResets = {}

C14_Witness ==
    /\ checkoutResolved /\ hasParentConfig
    /\ \E r \in parentResets : followedBy(r, <<"54321", " --\"">>)

\* C15: with a prRef the command exports PR_BRANCH_NAME as
\* 'upstream/<prBranchName>' when prSource is 'fork' and as
\* 'origin/<prBranchName>' when prSource is 'branch' or absent.
C15_PrBranchNamePrefix ==
    (checkoutResolved /\ hasPrRef /\ plan.v.prBranchName.t = "string") =>
        /\ Cardinality(positions("export PR_BRANCH_NAME='")) = 1
        /\ \A i \in positions("export PR_BRANCH_NAME='") :
              followedBy(i, <<IF plan.v.prSource.t = "string" /\ plan.v.prSource.v = <<"fork">>
                                THEN "upstream" ELSE "origin", "/">>
                             \o plan.v.prBranchName.v \o <<"'">>)

C15_Witness ==
    /\ checkoutResolved /\ hasPrRef
    /\ plan.v.prSource.t = "string" /\ plan.v.prSource.v = <<"fork">>
    /\ \E i \in positions("export PR_BRANCH_NAME='") :
          followedBy(i, <<"upstream", "/", "prBranchName", "'">>)

readOnlyEnabled ==
    "enabled" \in DOMAIN config.readOnly.v /\ config.readOnly.v.enabled.v = TRUE
readOnlySsh ==
    "cloneType" \in DOMAIN config.readOnly.v /\ config.readOnly.v.cloneType.v = "ssh"

\* how many steps the plan in hand asks for
stepCount ==
    4 + 1 + 7 + (IF hasParentConfig THEN 7 ELSE 0) + 5
      + (IF hasPrRef THEN 8 ELSE 1) + 1 + (IF hasRootDir THEN 1 ELSE 0)

\* how many ' && ' the steps of the plan in hand carry inside them
innerAndCount ==
    1 + (IF readOnlyEnabled THEN (IF readOnlySsh THEN 0 ELSE 1) ELSE 2)
      + (IF hasParentConfig THEN 4 ELSE 0) + 2 + 1

\* C16: getCheckoutCommand never rejects: for every plan and every adapter
\* configuration it resolves an object named 'sd-checkout-code' whose
\* command is a string, the steps of the plan joined by ' && '.
C16_CheckoutNeverRejects ==
    checkoutCalled =>
        /\ checkoutResolved
        /\ checkout.value.t = "object"
        /\ DOMAIN checkout.value.v = {"name", "command"}
        /\ checkout.value.v.name = Str("sd-checkout-code")
        /\ checkout.value.v.command.t = "string"
        /\ Cardinality(positions(" && ")) = stepCount - 1 + innerAndCount
        /\ commandText[2] = " && "
        /\ positions("; ") = {}

C16_Witness ==
    /\ checkoutResolved /\ hasPrRef /\ hasRootDir /\ hasParentConfig
    /\ readOnlyEnabled /\ readOnlySsh
    /\ ~Falsy(plan.v.commitBranch)
    /\ Cardinality(positions(" && ")) = 41

----------------------------------------------------------------------------
(* Concurrent calls *)

parseHookCalls == {i \in DOMAIN calls : calls[i].name = "parseHook"}
checkoutCalls == {i \in DOMAIN calls : calls[i].name = "getCheckoutCommand"}

\* every settled call has the result it has when it runs alone on the adapter
resultsAsAlone ==
    /\ \A i \in parseHookCalls :
          calls[i].result = _parseHook(config, calls[i].headers, calls[i].payload)
    /\ \A i \in checkoutCalls :
          calls[i].result = _getCheckoutCommand(config, calls[i].plan)

\* two checkout calls with the same plan have the same command string
samePlanSameCommand ==
    \A i, j \in checkoutCalls :
        calls[i].plan = calls[j].plan =>
            calls[i].result.value.v.command = calls[j].result.value.v.command

----------------------------------------------------------------------------
(* The breaker's retries *)

hasStatus(err) == "status" \in DOMAIN err.v
is4xx(err) == hasStatus(err) /\ err.v.status.v >= 400 /\ err.v.status.v <= 499
is5xx(err) == hasStatus(err) /\ err.v.status.v >= 500 /\ err.v.status.v <= 599

\* failure i was answered with another attempt
retriedAfter(i) == i < Len(sent)

\* failure i ended the command although retries were left
gaveUpEarlyAfter(i) ==
    i = Len(sent) /\ i = Len(failures) /\ reply.kind = "rejected" /\ retriesLeft

----------------------------------------------------------------------------
(* The API operations *)

addingWebhook == op.name = "addWebhook"

\* the route of the hooks of the project, and of one hook
hooksRoute == <<"projects/", "12345", "/hooks">>
hookRoute(hook) == hooksRoute \o <<"/", ToString(hook.v.id.v)>>

\* the hooks the listing answered with, and those with the webhook's url
listedHooks == op.listed.value.v.body.v
matchingHooks == {i \in DOMAIN listedHooks : listedHooks[i].v.url = op.webhookUrl}

\* C18: addWebhook lists the hooks of the project before it writes; when a
\* listed hook has the url of the webhook it runs exactly one PUT to
\* hooks/<id of that hook>, otherwise exactly one POST to hooks; when the
\* listing fails it writes nothing and rejects with the listing's error.
C18_AddWebhookListsThenWritesOnce ==
    addingWebhook =>
        /\ requests # <<>>
        /\ requests[1].method = "GET" /\ requests[1].route = hooksRoute
        /\ \A i \in DOMAIN requests : requests[i].method # "GET" => i = 2
        /\ op.listed.kind = "none" => Len(requests) = 1
        /\ op.listed.kind = "rejected" => Len(requests) = 1 /\ outcome = op.listed
        /\ op.listed.kind = "resolved" =>
              /\ Len(requests) = 2
              /\ IF matchingHooks # {}
                 THEN /\ requests[2].method = "PUT"
                      /\ \E i \in matchingHooks : requests[2].route = hookRoute(listedHooks[i])
                 ELSE /\ requests[2].method = "POST"
                      /\ requests[2].route = hooksRoute

C18_Witness ==
    /\ addingWebhook /\ op.pc = "done"
    /\ op.listed.kind = "resolved" /\ Len(listedHooks) = 2 /\ matchingHooks = {2}
    /\ requests[2].method = "PUT" /\ requests[2].route = hookRoute(listedHooks[2])
    /\ outcome.kind = "resolved"

gotPermissions ==
    op.name = "getPermissions" /\ op.pc = "done" /\ op.asked.kind = "resolved"

\* the access level the project's answer gives for a kind of access
levelOf(kind) ==
    LET body == op.asked.value.v.body.v IN
    IF "permissions" \notin DOMAIN body THEN 0
    ELSE LET access == body.permissions.v[kind] IN
         IF access.t = "object" /\ access.v.access_level.t = "number"
         THEN access.v.access_level.v ELSE 0

higherLevel ==
    IF levelOf("project_access") >= levelOf("group_access")
    THEN levelOf("project_access") ELSE levelOf("group_access")

\* C19: getPermissions takes the higher of the project and the group access
\* level (0 when absent): 50 or 40 gives admin, push and pull; 30 gives push
\* and pull; 20 gives pull; every other level gives none; so admin implies
\* push and push implies pull.
C19_PermissionsFromHigherLevel ==
    gotPermissions =>
        /\ outcome.kind = "resolved"
        /\ outcome.value.v.admin.v = (higherLevel \in {50, 40})
        /\ outcome.value.v.push.v = (higherLevel \in {50, 40, 30})
        /\ outcome.value.v.pull.v = (higherLevel \in {50, 40, 30, 20})
        /\ outcome.value.v.admin.v => outcome.value.v.push.v
        /\ outcome.value.v.push.v => outcome.value.v.pull.v

C19_Witness ==
    /\ gotPermissions
    /\ levelOf("project_access") = 20 /\ levelOf("group_access") = 40
    /\ outcome.value.v = [admin |-> Bool(TRUE), push |-> Bool(TRUE), pull |-> Bool(TRUE)]

addPrCommentDone == op.name = "addPrComment" /\ op.pc = "done"

answered200(settled) == settled.kind = "resolved" /\ settled.value.v.statusCode = Num(200)

\* one entry per comment whose command answered 200, in the comments' order
entriesOfAnswers ==
    LET answered == SelectSeq(op.answers, answered200) IN
    [k \in DOMAIN answered |->
        Obj([commentId |-> answered[k].value.v.body.v.id,
             createTime |-> answered[k].value.v.body.v.created_at,
             username |-> answered[k].value.v.body.v.author.v.username])]

\* C20: addPrComment resolves, never rejects, to the list with one entry per
\* comment whose create or edit command answered 200, in the order of the
\* comments; a comment whose command failed or answered another status is
\* left out and the comments after it are still processed.
C20_AddPrCommentResolvesAnswered ==
    addPrCommentDone =>
        /\ outcome.kind = "resolved"
        /\ Len(op.answers) = Len(op.comments)
        /\ outcome.value = Arr(entriesOfAnswers)

----------------------------------------------------------------------------
(* What the event says about the pushed ref and the commit it names *)

\* the characters after the last "/" of a ref (all of it when it has none)
lastSegment(chars) ==
    LET slashes == {i \in DOMAIN chars : chars[i] = "/"}
        from == IF slashes = {} THEN 0
                ELSE CHOOSE i \in slashes : \A j \in slashes : j <= i
    IN SubSeq(chars, from + 1, Len(chars))

lastCommitOf ==
    IF mergeRequestOf.t = "object" THEN mergeRequestOf.v.last_commit ELSE Undefined

\* C21: the event of a push has for branch the last "/"-separated segment of
\* the payload's ref, for ref the ref as delivered and for sha the payload's
\* top-level checkout_sha; the event of a merge request has for sha the id of
\* object_attributes.last_commit, whatever the payload carries at top level.
C21_PushBranchRefShaAndMergeRequestSha ==
    (parseHookCalled /\ resolvedEvent) =>
        /\ objectKind = "push" =>
            /\ event.branch = Str(lastSegment(payload.v.ref.v))
            /\ event.ref = payload.v.ref
            /\ event.sha = payload.v.checkout_sha
        /\ objectKind = "merge_request" =>
            event.sha = (IF lastCommitOf.t = "object" THEN lastCommitOf.v.id
                         ELSE Undefined)

\* a push of a ref with a "/" in its branch name
C21_Witness ==
    /\ parseHookCalled /\ resolvedEvent
    /\ objectKind = "push"
    /\ payload.v.ref = Str(RefNested)
    /\ event.branch = Str(<<"b">>)
    /\ event.ref = Str(RefNested)
    /\ event.sha = Str("da15608")

\* a merge request whose payload carries a top-level checkout_sha besides
\* its last commit
mergeRequestWithCheckoutSha ==
    /\ parseHookCalled /\ resolvedEvent
    /\ objectKind = "merge_request"
    /\ payload.v.checkout_sha = Str("da15608")
    /\ event.sha = Str("249b26f")

firstCommit == commitsOf.v[1].v
lastCommit == commitsOf.v[Len(commitsOf.v)].v
orEmptyList(x) == IF x.t = "undefined" THEN Arr(<<>>) ELSE x

\* C22: the event of a push with at least one commit has for addedFiles,
\* modifiedFiles and removedFiles the added, modified and removed lists of the
\* first commit alone (an empty list for one that commit lacks), and for
\* lastCommitMessage the message of the last commit ("" when it has none).
C22_FilesOfFirstCommitMessageOfLast ==
    (parseHookCalled /\ resolvedEvent /\ objectKind = "push" /\ ~noCommits) =>
        /\ event.addedFiles = orEmptyList(firstCommit.added)
        /\ event.modifiedFiles = orEmptyList(firstCommit.modified)
        /\ event.removedFiles = orEmptyList(firstCommit.removed)
        /\ event.lastCommitMessage = (IF lastCommit.message.t = "string"
                                      THEN lastCommit.message ELSE Str(""))

\* two commits that differ in their files and their message
C22_Witness ==
    /\ parseHookCalled /\ resolvedEvent /\ objectKind = "push"
    /\ IsArray(commitsOf) /\ Len(commitsOf.v) = 2
    /\ firstCommit.message = Str("fixed readme")
    /\ lastCommit.message = Str("cleanup")
    /\ event.addedFiles = Arr(<<Str("CHANGELOG")>>)
    /\ event.modifiedFiles = Arr(<<Str("app.rb")>>)
    /\ event.removedFiles = Arr(<<>>)
    /\ event.lastCommitMessage = Str("cleanup")

----------------------------------------------------------------------------
(* What the command does with the branch, the sha and the pull request *)

\* the branch the plan in hand builds: its commitBranch when it names one
planBranch == IF ~Falsy(plan.v.commitBranch) THEN plan.v.commitBranch ELSE plan.v.branch

primaryResets == positions("$SD_GIT_WRAPPER \"git reset --hard '")

\* what the reset at position i resets to: the pieces up to the closing quote
resetsTo(i, target) == followedBy(i, target \o <<"' --\"">>)

prFetches == positions("$SD_GIT_WRAPPER \"git fetch origin ")
prBaseExports == positions("export PR_BASE_BRANCH_NAME='")
prHeadExports == positions("export PR_BRANCH_NAME='")
prCheckouts == positions("$SD_GIT_WRAPPER \"git checkout ")
prMerges == positions("$SD_GIT_WRAPPER \"git merge ")
branchExports == positions("export GIT_BRANCH='origin/")
submoduleSteps == positions("$SD_GIT_WRAPPER \"git submodule init\";")

\* the pull request steps, once each, in their order between the reset of
\* the repository and the submodule step
prStepsInOrder ==
    \E r \in primaryResets, f \in prFetches, b \in prBaseExports, h \in prHeadExports,
       c \in prCheckouts, m \in prMerges, u \in submoduleSteps :
        /\ r < f /\ f < b /\ b < h /\ h < c /\ c < m /\ m < u
        /\ prFetches = {f} /\ prBaseExports = {b} /\ prHeadExports = {h}
        /\ prCheckouts = {c} /\ prMerges = {m}
        /\ followedBy(c, <<"pr", "\"">>)
        /\ followedBy(m, text(planBranch) \o <<"\"">>)

\* no pull request step at all
noPrSteps ==
    /\ prFetches = {} /\ prBaseExports = {} /\ prHeadExports = {}
    /\ prCheckouts = {} /\ prMerges = {}

\* the export of the plain branch, between the reset and the submodule step
branchExported ==
    \E r \in primaryResets, g \in branchExports, u \in submoduleSteps :
        /\ r < g /\ g < u
        /\ branchExports = {g}
        /\ followedBy(g, text(planBranch) \o <<"'">>)

\* the fetch names the local branch 'pr' as the place to fetch into: its
\* refspec ends with head:pr
fetchesIntoPr ==
    \E f \in prFetches, k \in DOMAIN commandText :
        /\ f < k
        /\ commandText[k] = "head:pr"
        /\ followedBy(k, <<"\"">>)
        /\ \A j \in (f + 1)..(k - 1) : commandText[j] # "\""

\* the part of C26 about which steps the command has and in which order
prStepsWhenPrRef ==
    checkoutResolved =>
        IF hasPrRef THEN prStepsInOrder /\ branchExports = {}
                    ELSE noPrSteps /\ branchExported

\* C26: the pull request steps appear exactly when the plan has a prRef and
\* then in this order between the reset of the repository and the submodule
\* step: the fetch of the pull request's head into the local branch 'pr', the
\* exports of PR_BASE_BRANCH_NAME and PR_BRANCH_NAME, the checkout of 'pr',
\* the merge of the target branch; with no prRef the command has none of them
\* and exports GIT_BRANCH='origin/<branch>' instead.
C26_PrStepsExactlyWithPrRef ==
    checkoutResolved =>
        IF hasPrRef THEN prStepsInOrder /\ fetchesIntoPr /\ branchExports = {}
                    ELSE noPrSteps /\ branchExported

\* the fetch goes into 'pr' for the plans whose prRef ends with its only 'merge'
fetchesIntoPrForMergeRefs ==
    (checkoutResolved /\ hasPrRef /\ plan.v.prRef = Str(<<"pull/6/", "merge">>)) =>
        fetchesIntoPr

hasCommitBranch == plan.t = "object" /\ ~Falsy(plan.v.commitBranch)

\* the pieces before position i of the command
precededBy(i, pieces) ==
    /\ i > Len(pieces)
    /\ SubSeq(commandText, i - Len(pieces), i - 1) = pieces

----------------------------------------------------------------------------
(* What the attempts of one breaker command send *)

\* C28: every attempt of one request, each retry included, is sent to the
\* URL and with the token of the first attempt: what _gitlabCommand writes
\* into the options does not change what a later attempt sends.
C28_RetriesSendTheSameRequest ==
    \A i \in DOMAIN sent :
        /\ sent[i].url = sent[1].url
        /\ sent[i].token = sent[1].token

\* the method is the one thing every attempt keeps
retriesKeepTheMethod == \A i \in DOMAIN sent : sent[i].method = sent[1].method

----------------------------------------------------------------------------
(* What running the command did *)

scriptRan == ran.kind = "ran"

\* the clones the run made of the repository itself and of its parent
primaryCloned == {k \in DOMAIN ran.clones : ran.clones[k].remote = "SCM_URL"}
parentCloned == {k \in DOMAIN ran.clones : ran.clones[k].remote = "CONFIG_URL"}

isSet(name) == env[name] # <<>>

\* the three remotes a clone can go to, for a host, an organisation and a
\* repository
sshRemote(r) == <<"git@">> \o r.host.v \o <<":">> \o r.org.v \o <<"/">> \o r.repo.v
plainRemote(r) == <<"https://">> \o r.host.v \o <<"/">> \o r.org.v \o <<"/">> \o r.repo.v
credentialsRemote(r) ==
    <<"https://">> \o env["SCM_USERNAME"] \o <<":">> \o env["SCM_ACCESS_TOKEN"] \o <<"@">>
        \o r.host.v \o <<"/">> \o r.org.v \o <<"/">> \o r.repo.v

\* the remote the environment alone asks for
remoteByEnvironment(r) ==
    IF env["SCM_CLONE_TYPE"] = <<"ssh">> THEN sshRemote(r)
    ELSE IF isSet("SCM_USERNAME") /\ isSet("SCM_ACCESS_TOKEN") THEN credentialsRemote(r)
    ELSE plainRemote(r)

\* C24: the remote of the repository's clone is decided when the command
\* runs, in this order: with readOnly enabled the adapter's readOnly.cloneType
\* decides between SSH and HTTPS and SCM_CLONE_TYPE is not looked at;
\* otherwise SCM_CLONE_TYPE = ssh gives the SSH remote; otherwise SCM_USERNAME
\* and SCM_ACCESS_TOKEN both set give the HTTPS remote with them in it;
\* otherwise the plain HTTPS remote.
C24_PrimaryRemotePrecedence ==
    scriptRan =>
        /\ Cardinality(primaryCloned) = 1
        /\ \A k \in primaryCloned :
            LET url == ran.clones[k].url IN
            IF readOnlyEnabled
            THEN IF readOnlySsh THEN url = sshRemote(plan.v)
                 ELSE IF isSet("SCM_USERNAME") /\ isSet("SCM_ACCESS_TOKEN")
                 THEN url = credentialsRemote(plan.v)
                 ELSE url = plainRemote(plan.v)
            ELSE url = remoteByEnvironment(plan.v)

\* readOnly over HTTPS in an environment that asks for SSH and has credentials
C24_Witness ==
    /\ scriptRan
    /\ readOnlyEnabled /\ ~readOnlySsh
    /\ env["SCM_CLONE_TYPE"] = <<"ssh">>
    /\ isSet("SCM_USERNAME") /\ isSet("SCM_ACCESS_TOKEN")
    /\ \E k \in primaryCloned :
           ran.clones[k].url =
               <<"https://", "sd-buildbot", ":", "glpat-1", "@", "hostName", "/", "orgName",
                 "/", "repoName">>

\* the depth option the environment asks of a shallow clone
depthOptionByEnvironment ==
    IF isSet("GIT_SHALLOW_CLONE_SINCE")
    THEN <<"--shallow-since='">> \o env["GIT_SHALLOW_CLONE_SINCE"] \o <<"'">>
    ELSE IF isSet("GIT_SHALLOW_CLONE_DEPTH")
    THEN <<"--depth=">> \o env["GIT_SHALLOW_CLONE_DEPTH"]
    ELSE <<"--depth=", "50">>

\* C25: a clone run with GIT_SHALLOW_CLONE = false carries no depth option;
\* any other clone carries --shallow-since when GIT_SHALLOW_CLONE_SINCE is
\* set, whatever the depth says, else the depth of GIT_SHALLOW_CLONE_DEPTH
\* when that is set, else the depth 50; the clone of the parent repository
\* follows the same rule as the clone of the repository itself.
C25_ShallowCloneOptions ==
    scriptRan =>
        /\ Cardinality(primaryCloned) = 1
        /\ Cardinality(parentCloned) = (IF hasParentConfig THEN 1 ELSE 0)
        /\ \A k \in DOMAIN ran.clones :
            IF env["GIT_SHALLOW_CLONE"] = <<"false">>
            THEN ~ran.clones[k].shallow /\ ran.clones[k].depthOption = <<>>
            ELSE ran.clones[k].shallow /\ ran.clones[k].depthOption = depthOptionByEnvironment

\* a build with a parent, a since date and a depth: both clones take the date
C25_Witness ==
    /\ scriptRan /\ hasParentConfig
    /\ env["GIT_SHALLOW_CLONE"] = <<"true">>
    /\ env["GIT_SHALLOW_CLONE_DEPTH"] = <<"10">>
    /\ isSet("GIT_SHALLOW_CLONE_SINCE")
    /\ Len(ran.clones) = 2
    /\ \A k \in DOMAIN ran.clones :
           ran.clones[k].depthOption = <<"--shallow-since='", "2 weeks ago", "'">>

\* the default depth, on both clones of a build with a parent
defaultDepthOnBothClones ==
    /\ scriptRan /\ hasParentConfig
    /\ ~isSet("GIT_SHALLOW_CLONE") /\ ~isSet("GIT_SHALLOW_CLONE_SINCE")
    /\ ~isSet("GIT_SHALLOW_CLONE_DEPTH")
    /\ Len(ran.clones) = 2
    /\ \A k \in DOMAIN ran.clones : ran.clones[k].depthOption = <<"--depth=", "50">>

\* the adapters that differ from the one in hand in their readOnly alone
readOnlyVariants ==
    {c \in CheckoutConfigs : [c EXCEPT !.readOnly = config.readOnly] = config}

\* what the build in hand would have run with the adapter c: the same plan,
\* the same environment
ranWith(c) == runScript(_getCheckoutCommand(c, plan).value.v.command.v, env)

\* the URLs a run cloned the parent repository and the repository itself from
parentUrls(r) == {r.clones[k].url : k \in {j \in DOMAIN r.clones : r.clones[j].remote = "CONFIG_URL"}}
primaryUrls(r) == {r.clones[k].url : k \in {j \in DOMAIN r.clones : r.clones[j].remote = "SCM_URL"}}

\* C29: the remote of the parent repository's clone does not depend on the
\* adapter's readOnly: adapters that differ in readOnly alone, given the same
\* plan and the same environment, clone the parent from the same URL, the
\* one the environment alone asks for (SCM_CLONE_TYPE = ssh, else HTTPS with
\* SCM_USERNAME and SCM_ACCESS_TOKEN when both are set, else plain HTTPS),
\* even where they clone the repository itself from different URLs.
C29_ParentRemoteIgnoresReadOnly ==
    (scriptRan /\ hasParentConfig) =>
        /\ parentUrls(ran) = {remoteByEnvironment(plan.v.parentConfig.v)}
        /\ \A c \in readOnlyVariants : parentUrls(ranWith(c)) = parentUrls(ran)

\* an adapter with readOnly over SSH in an environment that does not ask for
\* SSH: the parent is cloned over HTTPS, as with the adapters without
\* readOnly, which clone the repository itself from another URL
C29_Witness ==
    /\ scriptRan /\ hasParentConfig
    /\ readOnlyEnabled /\ readOnlySsh
    /\ env["SCM_CLONE_TYPE"] = <<>>
    /\ parentUrls(ran) = {<<"https://", "github.com", "/", "screwdriver-cd", "/", "parent-to-guide">>}
    /\ primaryUrls(ran) = {<<"git@", "hostName", ":", "orgName", "/", "repoName">>}
    /\ \E c \in readOnlyVariants :
        /\ primaryUrls(ranWith(c)) # primaryUrls(ran)
        /\ parentUrls(ranWith(c)) = parentUrls(ran)

====
